---- MODULE Spec2Model ----
(***************************************************************************)
(* Verification model of agent-session-parser: transcript chunking and     *)
(* reassembly (chunking.ts) and the Claude Code JSONL extraction           *)
(* utilities (parsers/claude/extract.ts, parse.ts, utils.ts).              *)
(*                                                                         *)
(* Strings are sequences of tokens.  A token [k, v, n] has a kind k, a     *)
(* text v and a length n in characters, so that String.length is the sum   *)
(* of the token lengths.  Kinds: "nl" the newline character, "ws" a blank, *)
(* "ch" an ordinary character, and the JSON pieces of a message-array      *)
(* document: "open" = {"messages":[   "close" = ]}   "comma" = ,           *)
(* "msg" = the text of one message value.                                  *)
(***************************************************************************)
EXTENDS Integers, Sequences, FiniteSets, TLC

VARIABLES
    op,         \* the operation applied last ("init" before any call)
    content,    \* chunking: the raw transcript content
    maxSize,    \* chunking: the size threshold of the call
    agentType,  \* chunking: the optional format hint ("" = undefined)
    chunked,    \* chunking: outcome of the chunk call
    joined,     \* chunking: outcome of the reassemble call
    transcript, \* extraction: the parsed transcript lines of the call
    checkpoint, \* extraction: the checkpoint uuid of the call
    loader,     \* extraction: the loadSubagentTranscript callback of the call
    args,       \* parsing and naming: the further arguments of the call
    ret,        \* extraction: the value(s) returned
    events,     \* conversion: the ACP events converted so far
    entries,    \* conversion: the SessionEntry objects created so far
    toolCallEntries, \* conversion: the Map from toolCallId to its entry
    modifiedFiles,   \* conversion: the modified files of the session
    counter     \* conversion: the counter of generateUUID

chunkVars == <<content, maxSize, agentType, chunked, joined>>
extractVars == <<transcript, checkpoint, loader, args, ret>>
convertVars == <<events, entries, toolCallEntries, modifiedFiles, counter>>
vars == <<op, chunkVars, extractVars, convertVars>>

----------------------------------------------------------------------------
(* Bounds of the model *)

MaxContentLen == 5      \* tokens in a line-delimited content
MaxMessages == 3        \* messages in a message-array document
MaxSizeBound == 26      \* largest maxSize tried
MaxLines == 4           \* lines in a parsed transcript
MaxItems == 4           \* strings in a list to deduplicate
MaxAutoLines == 3       \* lines in a content chunked with auto-detection
MaxRobustLines == 2     \* lines in a transcript of arbitrary JSON values
MaxEvents == 3          \* ACP events converted into one session

----------------------------------------------------------------------------
(* Strings *)

Tok(k, v, n) == [k |-> k, v |-> v, n |-> n]
NL == Tok("nl", "\n", 1)
WS == Tok("ws", " ", 1)
ChA == Tok("ch", "a", 1)
ChB == Tok("ch", "b", 1)
OPEN == Tok("open", "{\"messages\":[", 13)
COMMA == Tok("comma", ",", 1)
CLOSE == Tok("close", "]}", 2)

RECURSIVE Length(_)
Length(s) == IF s = <<>> THEN 0 ELSE Head(s).n + Length(Tail(s))

RECURSIVE SplitFrom(_, _, _)
SplitFrom(s, i, cur) ==
    IF i > Len(s) THEN <<cur>>
    ELSE IF s[i].k = "nl" THEN <<cur>> \o SplitFrom(s, i + 1, <<>>)
    ELSE SplitFrom(s, i + 1, Append(cur, s[i]))

\* String.prototype.split("\n"): k newlines give k + 1 lines, "" gives [""]
Split(s) == SplitFrom(s, 1, <<>>)

RECURSIVE Join(_, _)
\* Array.prototype.join(sep)
Join(parts, sep) ==
    IF parts = <<>> THEN <<>>
    ELSE IF Len(parts) = 1 THEN parts[1]
    ELSE parts[1] \o sep \o Join(Tail(parts), sep)

RECURSIVE StripTrailingNewline_All(_)
\* mutant: replace(/\n+$/, ""), every trailing newline dropped
StripTrailingNewline_All(s) ==
    IF s # <<>> /\ s[Len(s)].k = "nl"
    THEN StripTrailingNewline_All(SubSeq(s, 1, Len(s) - 1))
    ELSE s

\* String.prototype.replace(/\n$/, ""): drops one trailing newline
StripTrailingNewline(s) ==
    IF s # <<>> /\ s[Len(s)].k = "nl" THEN SubSeq(s, 1, Len(s) - 1) ELSE s

----------------------------------------------------------------------------
(* chunkJSONL / reassembleJSONL *)

\* Outcome of a chunk call: the chunks returned, or the error thrown.
Returned(cs) ==
    [threw |-> FALSE, error |-> "", chunks |-> cs, errLine |-> 0, errSize |-> 0, errMax |-> 0]

\* new Error(`JSONL line ${i + 1} exceeds maximum chunk size (${size} bytes > ${max} bytes) ...`)
LineTooLong(line, size, max) ==
    [threw |-> TRUE, error |-> "exceeds maximum chunk size", chunks |-> <<>>,
     errLine |-> line, errSize |-> size, errMax |-> max]

\* the SyntaxError of JSON.parse
SyntaxError ==
    [threw |-> TRUE, error |-> "SyntaxError", chunks |-> <<>>,
     errLine |-> 0, errSize |-> 0, errMax |-> 0]

RECURSIVE chunkJSONLLoop_AtOrOver(_, _, _, _, _)
\* mutant: a line is rejected when lineWithNewline.length >= maxSize
chunkJSONLLoop_AtOrOver(lines, i, chunks, currentChunk, max) ==
    IF i > Len(lines)
    THEN IF Length(currentChunk) > 0
         THEN Returned(Append(chunks, StripTrailingNewline(currentChunk)))
         ELSE Returned(chunks)
    ELSE LET lineWithNewline == Append(lines[i], NL) IN
         IF Length(lineWithNewline) >= max
         THEN LineTooLong(i, Length(lineWithNewline), max)
         ELSE IF Length(currentChunk) + Length(lineWithNewline) > max
                 /\ Length(currentChunk) > 0
              THEN chunkJSONLLoop_AtOrOver(lines, i + 1,
                                  Append(chunks, StripTrailingNewline(currentChunk)),
                                  lineWithNewline, max)
              ELSE chunkJSONLLoop_AtOrOver(lines, i + 1, chunks,
                                  currentChunk \o lineWithNewline, max)

\* lines is 1-based here, so index i is the source's line number i + 1

RECURSIVE chunkJSONLLoop(_, _, _, _, _)
chunkJSONLLoop(lines, i, chunks, currentChunk, max) ==
    IF i > Len(lines)
    THEN IF Length(currentChunk) > 0
         THEN Returned(Append(chunks, StripTrailingNewline(currentChunk)))
         ELSE Returned(chunks)
    ELSE LET lineWithNewline == Append(lines[i], NL) IN
         IF Length(lineWithNewline) > max
         THEN LineTooLong(i, Length(lineWithNewline), max)
         ELSE IF Length(currentChunk) + Length(lineWithNewline) > max
                 /\ Length(currentChunk) > 0
              THEN chunkJSONLLoop(lines, i + 1,
                                  Append(chunks, StripTrailingNewline(currentChunk)),
                                  lineWithNewline, max)
              ELSE chunkJSONLLoop(lines, i + 1, chunks,
                                  currentChunk \o lineWithNewline, max)

\* mutant: every line becomes a chunk of its own
chunkJSONL_ChunkPerLine(c, max) ==
    IF c = <<>> THEN Returned(<<>>)
    ELSE IF LET lines == Split(c) IN \E i \in DOMAIN lines : Length(lines[i]) + 1 > max
    THEN chunkJSONLLoop(Split(c), 1, <<>>, <<>>, max)
    ELSE Returned(Split(c))

chunkJSONL(c, max) ==
    IF c = <<>> THEN Returned(<<>>)
    ELSE chunkJSONLLoop(Split(c), 1, <<>>, <<>>, max)

reassembleJSONL(chunks) == Join(chunks, <<NL>>)

----------------------------------------------------------------------------
(* JSON.parse / JSON.stringify of a message-array document *)

\* A message value is named by its text v.  JSON.stringify writes it in
\* canonical form, StringifyLen[v] characters long; a document may hold
\* it in a longer form (inner blanks).
MessageValues == {"m1", "m2", "m3"}
StringifyLen == [v \in MessageValues |-> CASE v = "m1" -> 2 [] v = "m2" -> 3 [] v = "m3" -> 5]

stringifyMsg(v) == Tok("msg", v, StringifyLen[v])

NonWs(s) == SelectSeq(s, LAMBDA t : t.k \notin {"ws", "nl"})

IsWrapper(t) ==
    /\ Len(t) >= 2
    /\ t[1].k = "open"
    /\ t[Len(t)].k = "close"
    /\ LET body == SubSeq(t, 2, Len(t) - 1) IN
         \/ body = <<>>
         \/ /\ Len(body) % 2 = 1
            /\ \A i \in 1..Len(body) : body[i].k = (IF i % 2 = 1 THEN "msg" ELSE "comma")

\* JSON.parse(content) as { messages: unknown[] }
JSONParse(s) ==
    LET t == NonWs(s) IN
    IF IsWrapper(t)
    THEN [ok |-> TRUE,
          messages |-> [i \in 1..((Len(t) - 1) \div 2) |-> t[2 * i].v]]
    ELSE [ok |-> FALSE, messages |-> <<>>]

\* JSON.stringify({ messages })
JSONStringify(messages) ==
    <<OPEN>> \o Join([i \in 1..Len(messages) |-> <<stringifyMsg(messages[i])>>], <<COMMA>>)
             \o <<CLOSE>>

----------------------------------------------------------------------------
(* chunkGeminiJSON / reassembleGeminiJSON *)

WrapperSize == Length(<<OPEN, CLOSE>>)    \* '{"messages":[]}'.length

RECURSIVE chunkGeminiLoop_SealDropsMessage(_, _, _, _, _, _)
\* mutant: the message that seals a chunk is not carried into the next one
chunkGeminiLoop_SealDropsMessage(messages, i, chunks, currentMessages, currentSize, max) ==
    IF i > Len(messages)
    THEN IF Len(currentMessages) > 0
         THEN Returned(Append(chunks, JSONStringify(currentMessages)))
         ELSE Returned(chunks)
    ELSE LET msgStr == <<stringifyMsg(messages[i])>>
             addedSize == Length(msgStr) + (IF Len(currentMessages) > 0 THEN 1 ELSE 0)
         IN  IF currentSize + addedSize > max /\ Len(currentMessages) > 0
             THEN chunkGeminiLoop_SealDropsMessage(messages, i + 1,
                                  Append(chunks, JSONStringify(currentMessages)),
                                  <<>>, WrapperSize, max)
             ELSE chunkGeminiLoop_SealDropsMessage(messages, i + 1, chunks,
                                  Append(currentMessages, messages[i]),
                                  currentSize + addedSize, max)

RECURSIVE chunkGeminiLoop(_, _, _, _, _, _)
chunkGeminiLoop(messages, i, chunks, currentMessages, currentSize, max) ==
    IF i > Len(messages)
    THEN IF Len(currentMessages) > 0
         THEN Returned(Append(chunks, JSONStringify(currentMessages)))
         ELSE Returned(chunks)
    ELSE LET msgStr == <<stringifyMsg(messages[i])>>
             addedSize == Length(msgStr) + (IF Len(currentMessages) > 0 THEN 1 ELSE 0)
         IN  IF currentSize + addedSize > max /\ Len(currentMessages) > 0
             THEN chunkGeminiLoop(messages, i + 1,
                                  Append(chunks, JSONStringify(currentMessages)),
                                  <<messages[i]>>, WrapperSize + addedSize, max)
             ELSE chunkGeminiLoop(messages, i + 1, chunks,
                                  Append(currentMessages, messages[i]),
                                  currentSize + addedSize, max)

RECURSIVE currentSizeAtPush(_, _, _, _, _, _)
\* the value of currentSize each time the loop of chunkGeminiJSON, or the
\* statement after it, pushes a chunk; count is currentMessages.length
currentSizeAtPush(messages, i, sizes, count, currentSize, max) ==
    IF i > Len(messages)
    THEN IF count > 0 THEN Append(sizes, currentSize) ELSE sizes
    ELSE LET msgStr == <<stringifyMsg(messages[i])>>
             addedSize == Length(msgStr) + (IF count > 0 THEN 1 ELSE 0)
         IN  IF currentSize + addedSize > max /\ count > 0
             THEN currentSizeAtPush(messages, i + 1, Append(sizes, currentSize),
                                    1, WrapperSize + addedSize, max)
             ELSE currentSizeAtPush(messages, i + 1, sizes,
                                    count + 1, currentSize + addedSize, max)

chunkGeminiJSON(c, max) ==
    IF Length(c) <= max THEN Returned(<<c>>)
    ELSE LET parsed == JSONParse(c) IN
         IF ~parsed.ok THEN SyntaxError
         ELSE chunkGeminiLoop(parsed.messages, 1, <<>>, <<>>, WrapperSize, max)

Value(s) == [threw |-> FALSE, value |-> s]
ParseFailure == [threw |-> TRUE, value |-> <<>>]

RECURSIVE allMessagesOf(_)
allMessagesOf(chunks) ==
    IF chunks = <<>> THEN <<>>
    ELSE JSONParse(Head(chunks)).messages \o allMessagesOf(Tail(chunks))

reassembleGeminiJSON(chunks) ==
    IF Len(chunks) = 0 THEN Value(JSONStringify(<<>>))
    ELSE IF Len(chunks) = 1 THEN Value(chunks[1])
    ELSE IF \E i \in 1..Len(chunks) : ~JSONParse(chunks[i]).ok THEN ParseFailure
    ELSE Value(JSONStringify(allMessagesOf(chunks)))

----------------------------------------------------------------------------
(* detectAgentTypeFromContent / chunkTranscript *)

RECURSIVE trimStart(_)
trimStart(s) ==
    IF s # <<>> /\ Head(s).k \in {"ws", "nl"} THEN trimStart(Tail(s)) ELSE s

\* trimmed.startsWith("{"): the text of a message-array document and the
\* text of a JSON record both start with the brace
StartsWithBrace(trimmed) == trimmed # <<>> /\ trimmed[1].k \in {"open", "rec"}

\* mutant: the content is not trimmed
detectAgentTypeFromContent_NoTrim(c) ==
    IF ~StartsWithBrace(c) THEN ""
    ELSE LET parsed == JSONParse(c) IN
         IF parsed.ok /\ Len(parsed.messages) > 0 THEN "Gemini CLI" ELSE ""

\* "" stands for undefined; a record parses, and has no messages field
detectAgentTypeFromContent(c) ==
    LET trimmed == trimStart(c) IN
    IF ~StartsWithBrace(trimmed) THEN ""
    ELSE LET parsed == JSONParse(trimmed) IN
         IF parsed.ok /\ Len(parsed.messages) > 0 THEN "Gemini CLI" ELSE ""

\* mutant: the early return taken only strictly under maxSize
chunkTranscript_StrictlyUnder(c, hint, max) ==
    IF Length(c) < max THEN Returned(<<c>>)
    ELSE LET detectedType == IF hint # "" THEN hint ELSE detectAgentTypeFromContent(c) IN
         IF detectedType = "Gemini CLI" THEN chunkGeminiJSON(c, max)
         ELSE chunkJSONL(c, max)

chunkTranscript(c, hint, max) ==
    IF Length(c) <= max THEN Returned(<<c>>)
    ELSE LET detectedType == IF hint # "" THEN hint ELSE detectAgentTypeFromContent(c) IN
         IF detectedType = "Gemini CLI" THEN chunkGeminiJSON(c, max)
         ELSE chunkJSONL(c, max)

----------------------------------------------------------------------------
(* The chunking calls *)

RECURSIVE SeqsUpTo(_, _)
\* all sequences over S of length at most n
SeqsUpTo(S, n) ==
    IF n = 0 THEN {<<>>}
    ELSE LET shorter == SeqsUpTo(S, n - 1) IN
         shorter \cup {Append(q, x) : q \in shorter, x \in S}

\* line-delimited contents, blank lines and trailing newlines included
JSONLContents == SeqsUpTo({NL, ChA, ChB}, MaxContentLen)

\* a message written with one inner blank
spacedMsg(v) == Tok("msg", v, StringifyLen[v] + 1)

\* message-array documents, as JSON.stringify writes them and pretty-printed
GeminiDocs ==
    {JSONStringify(ms) : ms \in SeqsUpTo(MessageValues, MaxMessages)}
    \cup {<<OPEN, NL>> \o Join([i \in 1..Len(ms) |-> <<spacedMsg(ms[i])>>], <<COMMA, NL>>)
                       \o <<NL, CLOSE, NL>> : ms \in SeqsUpTo(MessageValues, MaxMessages)}

Contents == JSONLContents \cup GeminiDocs
MaxSizes == 0..MaxSizeBound
AgentTypes == {"", "Claude Code", "Gemini CLI"}

NoOutcome == Returned(<<>>)

\* no extraction call is made
ExtractIdle ==
    /\ transcript = <<>>
    /\ checkpoint = ""
    /\ loader = <<>>
    /\ args = <<>>
    /\ ret = <<>>

\* no conversion is under way
ConvertIdle ==
    /\ events = <<>>
    /\ entries = <<>>
    /\ toolCallEntries = <<>>
    /\ modifiedFiles = <<>>
    /\ counter = 0

\* no chunking call is made
ChunkIdle ==
    /\ content = <<>>
    /\ maxSize = 0
    /\ agentType = ""
    /\ chunked = NoOutcome
    /\ joined = Value(<<>>)

InitChunk ==
    /\ ConvertIdle
    /\ op = "init"
    /\ content \in Contents
    /\ maxSize = 0
    /\ agentType = ""
    /\ chunked = NoOutcome
    /\ joined = Value(<<>>)
    /\ ExtractIdle

CallChunkJSONL ==
    /\ op = "init"
    /\ \E max \in MaxSizes :
         /\ maxSize' = max
         /\ chunked' = chunkJSONL(content, max)
    /\ op' = "chunkJSONL"
    /\ UNCHANGED <<convertVars, content, agentType, joined, extractVars>>

CallReassembleJSONL ==
    /\ op = "chunkJSONL"
    /\ ~chunked.threw
    /\ joined' = Value(reassembleJSONL(chunked.chunks))
    /\ op' = "reassembleJSONL"
    /\ UNCHANGED <<convertVars, content, maxSize, agentType, chunked, extractVars>>

CallChunkGeminiJSON ==
    /\ op = "init"
    /\ \E max \in MaxSizes :
         /\ maxSize' = max
         /\ chunked' = chunkGeminiJSON(content, max)
    /\ op' = "chunkGeminiJSON"
    /\ UNCHANGED <<convertVars, content, agentType, joined, extractVars>>

CallReassembleGeminiJSON ==
    /\ op = "chunkGeminiJSON"
    /\ ~chunked.threw
    /\ joined' = reassembleGeminiJSON(chunked.chunks)
    /\ op' = "reassembleGeminiJSON"
    /\ UNCHANGED <<convertVars, content, maxSize, agentType, chunked, extractVars>>

CallChunkTranscript ==
    /\ op = "init"
    /\ \E max \in MaxSizes, hint \in AgentTypes :
         /\ maxSize' = max
         /\ agentType' = hint
         /\ chunked' = chunkTranscript(content, hint, max)
    /\ op' = "chunkTranscript"
    /\ UNCHANGED <<convertVars, content, joined, extractVars>>

NextChunk ==
    \/ CallChunkJSONL
    \/ CallReassembleJSONL
    \/ CallChunkGeminiJSON
    \/ CallReassembleGeminiJSON
    \/ CallChunkTranscript

SpecChunk == InitChunk /\ [][NextChunk]_vars

----------------------------------------------------------------------------
(* Properties of chunking *)

LineLengths(c) == {Length(Split(c)[i]) : i \in DOMAIN Split(c)}
LongestLine(c) == CHOOSE n \in LineLengths(c) : \A m \in LineLengths(c) : m <= n

\* the lines of a content; the empty content has none
LinesOf(c) == IF c = <<>> THEN <<>> ELSE Split(c)

\* the lines that do not fit maxSize together with their separator
LongLines(c, max) == {i \in DOMAIN LinesOf(c) : Length(LinesOf(c)[i]) + 1 > max}
FirstLongLine(c, max) == CHOOSE i \in LongLines(c, max) : \A j \in LongLines(c, max) : i <= j

RECURSIVE LinesOfChunks(_)
LinesOfChunks(chunks) ==
    IF chunks = <<>> THEN <<>>
    ELSE Split(Head(chunks)) \o LinesOfChunks(Tail(chunks))

JSONLRoundTrips ==
    /\ ~chunked.threw
    /\ op = "reassembleJSONL" => joined.value = content

\* C1, as stated: for every content and every maxSize that is at least the
\* length of the longest single line, chunkJSONL returns and
\* reassembleJSONL(chunkJSONL(content, maxSize)) equals content.
C1_RoundTripFromLongestLine ==
    (op \in {"chunkJSONL", "reassembleJSONL"} /\ maxSize >= LongestLine(content))
        => JSONLRoundTrips

\* C1, amended: for every content and every maxSize that is at least the
\* length of the longest single line plus one (the line with its
\* separator), reassembleJSONL(chunkJSONL(content, maxSize)) equals content
\* character for character, blank lines and a trailing newline included.
C1_RoundTripFromLongestLinePlusSeparator ==
    (op \in {"chunkJSONL", "reassembleJSONL"} /\ maxSize >= LongestLine(content) + 1)
        => JSONLRoundTrips

C1_Witness ==
    /\ op = "reassembleJSONL"
    /\ maxSize = LongestLine(content) + 1
    /\ Len(chunked.chunks) >= 3
    /\ \E i \in DOMAIN Split(content) : Split(content)[i] = <<>> /\ i < Len(Split(content))
    /\ content[Len(content)].k = "nl"
    /\ LongestLine(content) >= 2
    /\ joined.value = content

\* C2: for every valid message-array document and every maxSize, the message
\* list of reassembleGeminiJSON(chunkGeminiJSON(content, maxSize)) equals the
\* message list of the document, in order, however many chunks were produced.
C2_GeminiRoundTrip ==
    (op \in {"chunkGeminiJSON", "reassembleGeminiJSON"} /\ JSONParse(content).ok)
        => /\ ~chunked.threw
           /\ op = "reassembleGeminiJSON"
                => /\ ~joined.threw
                   /\ JSONParse(joined.value).ok
                   /\ JSONParse(joined.value).messages = JSONParse(content).messages

C2_Witness ==
    /\ op = "reassembleGeminiJSON"
    /\ JSONParse(content).ok
    /\ Len(chunked.chunks) = 2
    /\ Len(JSONParse(content).messages) = 3
    /\ joined.value # content
    /\ JSONParse(joined.value).messages = JSONParse(content).messages

OneChunkEqualToInput == ~chunked.threw /\ chunked.chunks = <<content>>

\* C3, as stated: chunkJSONL, chunkGeminiJSON and chunkTranscript applied to
\* content whose length is at or under maxSize return exactly one chunk,
\* equal to the input.
C3_OneChunkAtOrUnder ==
    (op \in {"chunkJSONL", "chunkGeminiJSON", "chunkTranscript"} /\ Length(content) <= maxSize)
        => OneChunkEqualToInput

\* C3, amended: chunkGeminiJSON and chunkTranscript applied to content whose
\* length is at or under maxSize, and chunkJSONL applied to non-empty content
\* whose length is strictly under maxSize, return exactly one chunk, equal to
\* the input.
C3_OneChunkUnder ==
    /\ (op \in {"chunkGeminiJSON", "chunkTranscript"} /\ Length(content) <= maxSize)
          => OneChunkEqualToInput
    /\ (op = "chunkJSONL" /\ content # <<>> /\ Length(content) < maxSize)
          => OneChunkEqualToInput

C3_Witness ==
    /\ op = "chunkJSONL"
    /\ Length(content) + 1 = maxSize
    /\ Len(Split(content)) >= 3
    /\ chunked.chunks = <<content>>

JSONLErrorContract ==
    /\ chunked.threw <=> LongLines(content, maxSize) # {}
    /\ chunked.threw =>
          /\ chunked.chunks = <<>>
          /\ chunked.errLine = FirstLongLine(content, maxSize)
          /\ chunked.errSize = Length(Split(content)[chunked.errLine]) + 1
          /\ chunked.errMax = maxSize
    /\ ~chunked.threw => LinesOfChunks(chunked.chunks) = LinesOf(content)

\* C4: chunkJSONL fails, returning no chunks, exactly when some line of
\* content together with its separator is longer than maxSize; the error
\* carries the 1-based number of the first such line, its size and maxSize;
\* a call that returns has split or truncated no line: the lines of its
\* chunks are the lines of content.  (Empty content has no line.)
C4_ErrorExactlyOnLongLine ==
    op = "chunkJSONL" => JSONLErrorContract

C4_Witness ==
    /\ op = "chunkJSONL"
    /\ chunked.threw
    /\ chunked.errLine = 2
    /\ chunked.errSize = 3
    /\ Cardinality(LongLines(content, maxSize)) = 2
    /\ Length(Split(content)[1]) + 1 <= maxSize

----------------------------------------------------------------------------
(* Claude Code transcript lines *)

\* Identifiers, tool names and paths are strings; "" stands for a missing
\* or empty one (the code tests them for truthiness only).  Prompt, response
\* and tool-result texts are sequences of symbols (words, blanks, tags), <<>>
\* being the empty text.  A missing message behaves as a message without
\* fields: every access is guarded by ?. or by typeof.

MessageType == [User |-> "user", Assistant |-> "assistant"]
ContentType == [Text |-> "text", ToolUse |-> "tool_use", ToolResult |-> "tool_result"]
FileModificationTools == {"Write", "Edit", "NotebookEdit", "mcp__acp__Write", "mcp__acp__Edit"}

NoInput == [present |-> FALSE, file_path |-> "", notebook_path |-> ""]
ToolInput(file_path, notebook_path) ==
    [present |-> TRUE, file_path |-> file_path, notebook_path |-> notebook_path]

\* content of a tool_result block: absent, a string, or a list of {type, text}
NoResult == [kind |-> "absent", text |-> <<>>, parts |-> <<>>]
StringResult(text) == [kind |-> "string", text |-> text, parts |-> <<>>]
ArrayResult(parts) == [kind |-> "array", text |-> <<>>, parts |-> parts]
TextPart(text) == [type |-> "text", text |-> text]

ContentBlock(type, text, name, input, tool_use_id, result) ==
    [type |-> type, text |-> text, name |-> name, input |-> input,
     tool_use_id |-> tool_use_id, content |-> result]
TextBlock(text) == ContentBlock(ContentType.Text, text, "", NoInput, "", NoResult)
ToolUseBlock(name, input) == ContentBlock(ContentType.ToolUse, <<>>, name, input, "", NoResult)
ToolResultBlock(tool_use_id, result) ==
    ContentBlock(ContentType.ToolResult, <<>>, "", NoInput, tool_use_id, result)

\* message.content: absent, a string, or a list of content blocks
NoContent == [kind |-> "absent", text |-> <<>>, blocks |-> <<>>]
StringContent(text) == [kind |-> "string", text |-> text, blocks |-> <<>>]
ArrayContent(blocks) == [kind |-> "array", text |-> <<>>, blocks |-> blocks]

NoUsage ==
    [present |-> FALSE, input_tokens |-> 0, cache_creation_input_tokens |-> 0,
     cache_read_input_tokens |-> 0, output_tokens |-> 0]
MessageUsage(input, creation, read, output) ==
    [present |-> TRUE, input_tokens |-> input, cache_creation_input_tokens |-> creation,
     cache_read_input_tokens |-> read, output_tokens |-> output]

Message(msgContent, id, usage) == [content |-> msgContent, id |-> id, usage |-> usage]
TranscriptLine(type, lineUuid, message) == [type |-> type, uuid |-> lineUuid, message |-> message]

\* The JSON value null in the place of a line or of a content block: it has
\* no field, and reading one of it raises a TypeError.  It is written as a
\* line / block of the type NullType, which no transcript uses.
NullType == "<null>"
NullLine == TranscriptLine(NullType, "", Message(NoContent, "", NoUsage))
NullBlock == ContentBlock(NullType, <<>>, "", NoInput, "", NoResult)
IsNull(value) == value.type = NullType

\* the line builders of tests/claude/extract.test.ts
userLine(lineUuid, text) ==
    TranscriptLine("user", lineUuid, Message(StringContent(text), "", NoUsage))
assistantLine(lineUuid, blocks) ==
    TranscriptLine("assistant", lineUuid, Message(ArrayContent(blocks), "", NoUsage))
assistantWithUsage(lineUuid, id, usage) ==
    TranscriptLine("assistant", lineUuid, Message(ArrayContent(<<>>), id, usage))
toolResultLine(lineUuid, tool_use_id, result) ==
    TranscriptLine("user", lineUuid,
                   Message(ArrayContent(<<ToolResultBlock(tool_use_id, result)>>), "", NoUsage))

Range(q) == {q[i] : i \in DOMAIN q}

----------------------------------------------------------------------------
(* stripIDEContextTags / deduplicateStrings (utils.ts) *)

Blank(sym) == sym \in {" ", "\n"}

RECURSIVE RemoveElements(_, _, _)
\* text.replace(/<open[^>]*>[\s\S]*?<\/close[^>]*>/g, ""): from each opening
\* tag to the nearest closing tag after it, leftmost first
RemoveElements(text, open, close) ==
    IF text = <<>> THEN <<>>
    ELSE IF Head(text) = open /\ \E j \in 2..Len(text) : text[j] = close
    THEN LET j == CHOOSE j \in 2..Len(text) :
                      /\ text[j] = close
                      /\ \A h \in 2..(j - 1) : text[h] # close
         IN  RemoveElements(SubSeq(text, j + 1, Len(text)), open, close)
    ELSE <<Head(text)>> \o RemoveElements(Tail(text), open, close)

RECURSIVE trimStartText(_)
trimStartText(text) ==
    IF text # <<>> /\ Blank(Head(text)) THEN trimStartText(Tail(text)) ELSE text

RECURSIVE trimEndText(_)
trimEndText(text) ==
    IF text # <<>> /\ Blank(text[Len(text)])
    THEN trimEndText(SubSeq(text, 1, Len(text) - 1))
    ELSE text

trim(text) == trimEndText(trimStartText(text))

\* the IDE tags, then the system tags in turn (system-reminder stands for
\* the six of SYSTEM_TAG_REGEXES, which differ in the tag name only)
stripIDEContextTags(text) ==
    trim(RemoveElements(RemoveElements(text, "<ide_>", "</ide_>"),
                        "<system-reminder>", "</system-reminder>"))

RECURSIVE deduplicateInto_KeepLast(_, _)
\* mutant: the last occurrence of each string is the one kept
deduplicateInto_KeepLast(items, result) ==
    IF items = <<>> THEN result
    ELSE IF Head(items) \notin Range(Tail(items))
    THEN deduplicateInto_KeepLast(Tail(items), Append(result, Head(items)))
    ELSE deduplicateInto_KeepLast(Tail(items), result)

RECURSIVE deduplicateInto(_, _)
deduplicateInto(items, result) ==
    IF items = <<>> THEN result
    ELSE IF Head(items) \notin Range(result)
    THEN deduplicateInto(Tail(items), Append(result, Head(items)))
    ELSE deduplicateInto(Tail(items), result)

deduplicateStrings(items) == deduplicateInto(items, <<>>)

----------------------------------------------------------------------------
(* extractUserContent (parse.ts) *)

RECURSIVE textsOfBlocks(_)
\* the truthy text of every block of type "text"
textsOfBlocks(blocks) ==
    IF blocks = <<>> THEN <<>>
    ELSE LET block == Head(blocks) IN
         IF block.type = ContentType.Text /\ block.text # <<>>
         THEN <<block.text>> \o textsOfBlocks(Tail(blocks))
         ELSE textsOfBlocks(Tail(blocks))

extractUserContent(message) ==
    IF message.content.kind = "string"
    THEN stripIDEContextTags(message.content.text)
    ELSE IF message.content.kind = "array"
              /\ Len(textsOfBlocks(message.content.blocks)) > 0
    THEN stripIDEContextTags(Join(textsOfBlocks(message.content.blocks), <<"\n", "\n">>))
    ELSE <<>>

----------------------------------------------------------------------------
(* extractModifiedFiles, extractAllUserPrompts, extractAssistantResponses,
   extractAllPromptResponses, truncateAtUUID, filterAfterUUID (extract.ts) *)

\* !msg?.content || !Array.isArray(msg.content)
HasBlocks(message) == message.content.kind = "array"

RECURSIVE filesOfBlocks_NotebookFirst(_, _)
\* mutant: notebook_path is preferred to file_path
filesOfBlocks_NotebookFirst(blocks, files) ==
    IF blocks = <<>> THEN files
    ELSE LET block == Head(blocks)
             file == IF block.input.notebook_path # "" THEN block.input.notebook_path
                     ELSE block.input.file_path
         IN  IF /\ block.type = ContentType.ToolUse
                /\ block.name # ""
                /\ block.name \in FileModificationTools
                /\ block.input.present
                /\ file # ""
                /\ file \notin Range(files)
             THEN filesOfBlocks_NotebookFirst(Tail(blocks), Append(files, file))
             ELSE filesOfBlocks_NotebookFirst(Tail(blocks), files)

RECURSIVE filesOfBlocks(_, _)
filesOfBlocks(blocks, files) ==
    IF blocks = <<>> THEN files
    ELSE LET block == Head(blocks)
             file == IF block.input.file_path # "" THEN block.input.file_path
                     ELSE block.input.notebook_path
         IN  IF /\ block.type = ContentType.ToolUse
                /\ block.name # ""
                /\ block.name \in FileModificationTools
                /\ block.input.present
                /\ file # ""
                /\ file \notin Range(files)
             THEN filesOfBlocks(Tail(blocks), Append(files, file))
             ELSE filesOfBlocks(Tail(blocks), files)

RECURSIVE filesOfLines(_, _)
filesOfLines(lines, files) ==
    IF lines = <<>> THEN files
    ELSE LET line == Head(lines) IN
         IF line.type = MessageType.Assistant /\ HasBlocks(line.message)
         THEN filesOfLines(Tail(lines), filesOfBlocks(line.message.content.blocks, files))
         ELSE filesOfLines(Tail(lines), files)

extractModifiedFiles(lines) == filesOfLines(lines, <<>>)

RECURSIVE extractAllUserPrompts(_)
extractAllUserPrompts(lines) ==
    IF lines = <<>> THEN <<>>
    ELSE LET line == Head(lines) IN
         IF line.type = MessageType.User /\ extractUserContent(line.message) # <<>>
         THEN <<extractUserContent(line.message)>> \o extractAllUserPrompts(Tail(lines))
         ELSE extractAllUserPrompts(Tail(lines))

RECURSIVE extractAssistantResponses(_)
extractAssistantResponses(lines) ==
    IF lines = <<>> THEN <<>>
    ELSE LET line == Head(lines) IN
         IF line.type = MessageType.Assistant /\ HasBlocks(line.message)
         THEN textsOfBlocks(line.message.content.blocks)
                  \o extractAssistantResponses(Tail(lines))
         ELSE extractAssistantResponses(Tail(lines))

\* the indices of the lines holding a user prompt, ascending
userIndicesOf(lines) ==
    LET isPrompt(i) == /\ lines[i].type = MessageType.User
                       /\ extractUserContent(lines[i].message) # <<>>
        F[i \in 0..Len(lines)] ==
            IF i = 0 THEN <<>>
            ELSE IF isPrompt(i) THEN Append(F[i - 1], i) ELSE F[i - 1]
    IN  F[Len(lines)]

RECURSIVE pairsFrom_ToTheEnd(_, _, _)
\* mutant: every span runs to the end of lines
pairsFrom_ToTheEnd(lines, userIndices, idx) ==
    IF idx > Len(userIndices) THEN <<>>
    ELSE LET startIdx == userIndices[idx]
             slice == SubSeq(lines, startIdx, Len(lines))
             prompt == extractUserContent(lines[startIdx].message)
         IN  IF prompt = <<>> THEN pairsFrom_ToTheEnd(lines, userIndices, idx + 1)
             ELSE <<[prompt |-> prompt,
                     responses |-> extractAssistantResponses(slice),
                     files |-> extractModifiedFiles(slice)]>>
                  \o pairsFrom_ToTheEnd(lines, userIndices, idx + 1)

RECURSIVE pairsFrom(_, _, _)
pairsFrom(lines, userIndices, idx) ==
    IF idx > Len(userIndices) THEN <<>>
    ELSE LET startIdx == userIndices[idx]
             endIdx == IF idx < Len(userIndices) THEN userIndices[idx + 1]
                       ELSE Len(lines) + 1
             slice == SubSeq(lines, startIdx, endIdx - 1)
             prompt == extractUserContent(lines[startIdx].message)
         IN  IF prompt = <<>> THEN pairsFrom(lines, userIndices, idx + 1)
             ELSE <<[prompt |-> prompt,
                     responses |-> extractAssistantResponses(slice),
                     files |-> extractModifiedFiles(slice)]>>
                  \o pairsFrom(lines, userIndices, idx + 1)

extractAllPromptResponses(lines) == pairsFrom(lines, userIndicesOf(lines), 1)

RECURSIVE indexOfUUID_Last(_, _, _)
\* mutant: the loop keeps going and ends on the last matching line
indexOfUUID_Last(lines, lineUuid, i) ==
    IF i > Len(lines) THEN 0
    ELSE LET later == indexOfUUID_Last(lines, lineUuid, i + 1) IN
         IF later > 0 THEN later
         ELSE IF lines[i].uuid = lineUuid THEN i ELSE 0

RECURSIVE indexOfUUID(_, _, _)
\* the for loop of truncateAtUUID / filterAfterUUID: the first i with
\* lines[i].uuid === uuid, 0 when the loop ends without one
indexOfUUID(lines, lineUuid, i) ==
    IF i > Len(lines) THEN 0
    ELSE IF lines[i].uuid = lineUuid THEN i
    ELSE indexOfUUID(lines, lineUuid, i + 1)

truncateAtUUID(lines, lineUuid) ==
    IF lineUuid = "" THEN lines
    ELSE LET i == indexOfUUID(lines, lineUuid, 1) IN
         IF i > 0 THEN SubSeq(lines, 1, i) ELSE lines

\* mutant: nothing comes after a uuid that is not there
filterAfterUUID_EmptyOnMiss(lines, lineUuid) ==
    IF lineUuid = "" THEN lines
    ELSE LET i == indexOfUUID(lines, lineUuid, 1) IN
         IF i > 0 THEN SubSeq(lines, i + 1, Len(lines)) ELSE <<>>

filterAfterUUID(lines, lineUuid) ==
    IF lineUuid = "" THEN lines
    ELSE LET i == indexOfUUID(lines, lineUuid, 1) IN
         IF i > 0 THEN SubSeq(lines, i + 1, Len(lines)) ELSE lines

----------------------------------------------------------------------------
(* Checkpoint calls: truncateAtUUID, then filterAfterUUID at the same uuid *)

\* lines sharing a uuid, lines of both types, and a line without uuid
CheckpointLines ==
    {userLine("u1", <<"first">>), assistantLine("u1", <<>>), assistantLine("a1", <<>>),
     userLine("u2", <<"second">>), userLine("", <<"first">>)}

CheckpointUUIDs == {"", "u1", "a1", "u2", "nonexistent"}

InitCheckpoint ==
    /\ ConvertIdle
    /\ op = "init"
    /\ args = <<>>
    /\ transcript \in SeqsUpTo(CheckpointLines, MaxLines)
    /\ checkpoint = ""
    /\ loader = <<>>
    /\ ret = <<>>
    /\ ChunkIdle

CallTruncateAtUUID ==
    /\ op = "init"
    /\ \E id \in CheckpointUUIDs :
         /\ checkpoint' = id
         /\ ret' = [truncated |-> truncateAtUUID(transcript, id)]
    /\ op' = "truncateAtUUID"
    /\ UNCHANGED <<convertVars, transcript, loader, args, chunkVars>>

CallFilterAfterUUID ==
    /\ op = "truncateAtUUID"
    /\ ret' = [truncated |-> ret.truncated,
               filtered |-> filterAfterUUID(transcript, checkpoint)]
    /\ op' = "filterAfterUUID"
    /\ UNCHANGED <<convertVars, transcript, checkpoint, loader, args, chunkVars>>

NextCheckpoint == CallTruncateAtUUID \/ CallFilterAfterUUID

SpecCheckpoint == InitCheckpoint /\ [][NextCheckpoint]_vars

Matches == {i \in DOMAIN transcript : transcript[i].uuid = checkpoint}
FirstMatch == CHOOSE i \in Matches : \A j \in Matches : i <= j

\* C9: when the uuid is the empty string or the uuid of no line,
\* truncateAtUUID and filterAfterUUID each return the input sequence
\* unchanged.
C9_MissingCheckpointKeepsAll ==
    (op \in {"truncateAtUUID", "filterAfterUUID"} /\ (checkpoint = "" \/ Matches = {}))
        => /\ ret.truncated = transcript
           /\ op = "filterAfterUUID" => ret.filtered = transcript

C9_Witness ==
    /\ op = "filterAfterUUID"
    /\ checkpoint = "nonexistent"
    /\ Len(transcript) >= 3
    /\ ret.truncated = transcript
    /\ ret.filtered = transcript

\* C10: when a non-empty uuid matches some line, truncateAtUUID returns the
\* prefix ending at the first matching line, filterAfterUUID the suffix
\* starting right after that line, and the two concatenated give lines.
C10_SplitAtFirstMatch ==
    (op \in {"truncateAtUUID", "filterAfterUUID"} /\ checkpoint # "" /\ Matches # {})
        => /\ ret.truncated = SubSeq(transcript, 1, FirstMatch)
           /\ op = "filterAfterUUID"
                => /\ ret.filtered = SubSeq(transcript, FirstMatch + 1, Len(transcript))
                   /\ ret.truncated \o ret.filtered = transcript

C10_Witness ==
    /\ op = "filterAfterUUID"
    /\ checkpoint = "u1"
    /\ Cardinality(Matches) = 2
    /\ FirstMatch = 2
    /\ Len(ret.truncated) = 2
    /\ Len(ret.filtered) = 2
    /\ ret.truncated \o ret.filtered = transcript

----------------------------------------------------------------------------
(* calculateTokenUsage (extract.ts) *)

\* A Map is the sequence of its entries in insertion order; set() on a key
\* that is there replaces the value and keeps the entry's place.
MapHas(map, key) == \E i \in DOMAIN map : map[i].key = key
MapIndex(map, key) == CHOOSE i \in DOMAIN map : map[i].key = key
MapGet(map, key) == map[MapIndex(map, key)].value
MapSet(map, key, value) ==
    IF MapHas(map, key) THEN [map EXCEPT ![MapIndex(map, key)].value = value]
    ELSE Append(map, [key |-> key, value |-> value])
MapKeys(map) == [i \in DOMAIN map |-> map[i].key]

emptyTokenUsage ==
    [inputTokens |-> 0, cacheCreationTokens |-> 0, cacheReadTokens |-> 0,
     outputTokens |-> 0, apiCallCount |-> 0]

RECURSIVE usageByMessageIdOf_KeepLast(_, _)
\* mutant: a row replaces the retained one on equal output_tokens too
usageByMessageIdOf_KeepLast(lines, map) ==
    IF lines = <<>> THEN map
    ELSE LET line == Head(lines)
             msg == line.message
         IN  IF line.type # MessageType.Assistant \/ msg.id = "" \/ ~msg.usage.present
             THEN usageByMessageIdOf_KeepLast(Tail(lines), map)
             ELSE IF \/ ~MapHas(map, msg.id)
                     \/ msg.usage.output_tokens >= MapGet(map, msg.id).output_tokens
             THEN usageByMessageIdOf_KeepLast(Tail(lines), MapSet(map, msg.id, msg.usage))
             ELSE usageByMessageIdOf_KeepLast(Tail(lines), map)

RECURSIVE usageByMessageIdOf(_, _)
usageByMessageIdOf(lines, map) ==
    IF lines = <<>> THEN map
    ELSE LET line == Head(lines)
             msg == line.message
         IN  IF line.type # MessageType.Assistant \/ msg.id = "" \/ ~msg.usage.present
             THEN usageByMessageIdOf(Tail(lines), map)
             ELSE IF \/ ~MapHas(map, msg.id)
                     \/ msg.usage.output_tokens > MapGet(map, msg.id).output_tokens
             THEN usageByMessageIdOf(Tail(lines), MapSet(map, msg.id, msg.usage))
             ELSE usageByMessageIdOf(Tail(lines), map)

RECURSIVE sumUsage(_, _)
sumUsage(map, usage) ==
    IF map = <<>> THEN usage
    ELSE LET u == Head(map).value IN
         sumUsage(Tail(map),
                  [usage EXCEPT !.inputTokens = @ + u.input_tokens,
                                !.cacheCreationTokens = @ + u.cache_creation_input_tokens,
                                !.cacheReadTokens = @ + u.cache_read_input_tokens,
                                !.outputTokens = @ + u.output_tokens])

calculateTokenUsage(lines) ==
    LET usageByMessageId == usageByMessageIdOf(lines, <<>>) IN
    sumUsage(usageByMessageId,
             [emptyTokenUsage EXCEPT !.apiCallCount = Len(usageByMessageId)])

----------------------------------------------------------------------------
(* Token usage calls *)

\* streaming rows of one message (equal and growing output_tokens), a second
\* message, rows without id or without usage, and a user row with usage
UsageLines ==
    {assistantWithUsage("a1", "msg1", MessageUsage(1, 10, 20, 1)),
     assistantWithUsage("a2", "msg1", MessageUsage(2, 11, 21, 1)),
     assistantWithUsage("a3", "msg1", MessageUsage(3, 12, 22, 5)),
     assistantWithUsage("a4", "msg2", MessageUsage(4, 13, 23, 2)),
     assistantWithUsage("a5", "", MessageUsage(5, 14, 24, 9)),
     assistantWithUsage("a6", "msg2", NoUsage),
     TranscriptLine("user", "u1",
                    Message(ArrayContent(<<>>), "msg3", MessageUsage(6, 15, 25, 7)))}

InitUsage ==
    /\ ConvertIdle
    /\ op = "init"
    /\ args = <<>>
    /\ transcript \in SeqsUpTo(UsageLines, MaxLines)
    /\ checkpoint = ""
    /\ loader = <<>>
    /\ ret = <<>>
    /\ ChunkIdle

CallCalculateTokenUsage ==
    /\ op = "init"
    /\ ret' = calculateTokenUsage(transcript)
    /\ op' = "calculateTokenUsage"
    /\ UNCHANGED <<convertVars, transcript, checkpoint, loader, args, chunkVars>>

NextUsage == CallCalculateTokenUsage

SpecUsage == InitUsage /\ [][NextUsage]_vars

\* the assistant rows that carry a message id and a usage payload
UsageRows(lines) ==
    {i \in DOMAIN lines : /\ lines[i].type = "assistant"
                          /\ lines[i].message.id # ""
                          /\ lines[i].message.usage.present}
MessageIds(lines) == {lines[i].message.id : i \in UsageRows(lines)}
RowsOf(lines, id) == {i \in UsageRows(lines) : lines[i].message.id = id}
OutputOf(lines, i) == lines[i].message.usage.output_tokens

\* the first row of the id among those with the maximum output_tokens
RetainedRow(lines, id) ==
    CHOOSE i \in RowsOf(lines, id) :
        /\ \A j \in RowsOf(lines, id) : OutputOf(lines, j) <= OutputOf(lines, i)
        /\ \A j \in RowsOf(lines, id) : OutputOf(lines, j) = OutputOf(lines, i) => i <= j
RetainedRows(lines) == {RetainedRow(lines, id) : id \in MessageIds(lines)}

RECURSIVE SumField(_, _, _)
SumField(lines, rows, field) ==
    IF rows = {} THEN 0
    ELSE LET i == CHOOSE i \in rows : TRUE IN
         lines[i].message.usage[field] + SumField(lines, rows \ {i}, field)

DedupedUsage(lines, usage) ==
    /\ usage.inputTokens = SumField(lines, RetainedRows(lines), "input_tokens")
    /\ usage.cacheCreationTokens
           = SumField(lines, RetainedRows(lines), "cache_creation_input_tokens")
    /\ usage.cacheReadTokens = SumField(lines, RetainedRows(lines), "cache_read_input_tokens")
    /\ usage.outputTokens = SumField(lines, RetainedRows(lines), "output_tokens")
    /\ usage.apiCallCount = Cardinality(MessageIds(lines))

\* C5: calculateTokenUsage groups the assistant lines that carry a usage
\* payload by message.id, retains for each id the row with the maximum
\* output_tokens (the first such row on a tie), sums the four token fields
\* over the retained rows and sets apiCallCount to the number of distinct
\* message ids.
C5_UsageDedupedByMessageId ==
    op = "calculateTokenUsage" => DedupedUsage(transcript, ret)

C5_Witness ==
    /\ op = "calculateTokenUsage"
    /\ Cardinality(UsageRows(transcript)) = 4
    /\ \E i, j \in RowsOf(transcript, "msg1") :
          /\ i < j
          /\ OutputOf(transcript, i) = OutputOf(transcript, j)
          /\ RetainedRow(transcript, "msg1") = i
          /\ transcript[i] # transcript[j]
    /\ ret.apiCallCount = 2
    /\ ret.inputTokens = 5

----------------------------------------------------------------------------
(* Prompt and response calls *)

\* prompts as a string and as text blocks, a prompt that is only an IDE tag,
\* a tool-result-only user line, assistant lines with text and tool_use
\* blocks (a repeated path, a notebook path, a tool that modifies nothing),
\* and an assistant line with string content
PromptLines ==
    {userLine("u1", <<"write", " ", "a", " ", "file">>),
     userLine("u2", <<"<ide_>", "f.ts", "</ide_>">>),
     userLine("u3", <<"<ide_>", "f.ts", "</ide_>", " ", "looks", " ", "good">>),
     TranscriptLine("user", "u4",
                    Message(ArrayContent(<<TextBlock(<<"looks">>),
                                           ToolResultBlock("tu1", StringResult(<<"ok">>)),
                                           TextBlock(<<"good">>)>>), "", NoUsage)),
     toolResultLine("u5", "tu1", StringResult(<<"done">>)),
     assistantLine("a1", <<TextBlock(<<"I'll write it">>),
                           ToolUseBlock("Write", ToolInput("/foo.ts", ""))>>),
     assistantLine("a2", <<ToolUseBlock("Edit", ToolInput("/foo.ts", "")),
                           TextBlock(<<"Thanks!">>),
                           ToolUseBlock("NotebookEdit", ToolInput("", "/nb.ipynb")),
                           ToolUseBlock("Read", ToolInput("/r.ts", "")),
                           TextBlock(<<>>)>>),
     TranscriptLine("assistant", "a3", Message(StringContent(<<"plain">>), "", NoUsage))}

InitPrompts ==
    /\ ConvertIdle
    /\ op = "init"
    /\ args = <<>>
    /\ transcript \in SeqsUpTo(PromptLines, MaxLines)
    /\ checkpoint = ""
    /\ loader = <<>>
    /\ ret = <<>>
    /\ ChunkIdle

CallExtractAllPromptResponses ==
    /\ op = "init"
    /\ ret' = extractAllPromptResponses(transcript)
    /\ op' = "extractAllPromptResponses"
    /\ UNCHANGED <<convertVars, transcript, checkpoint, loader, args, chunkVars>>

CallExtractAllUserPrompts ==
    /\ op = "init"
    /\ ret' = extractAllUserPrompts(transcript)
    /\ op' = "extractAllUserPrompts"
    /\ UNCHANGED <<convertVars, transcript, checkpoint, loader, args, chunkVars>>

NextPrompts == CallExtractAllPromptResponses \/ CallExtractAllUserPrompts

SpecPrompts == InitPrompts /\ [][NextPrompts]_vars

\* the indices of the user lines whose prompt text is not empty
PromptIndices(lines) ==
    {i \in DOMAIN lines : lines[i].type = "user" /\ extractUserContent(lines[i].message) # <<>>}

\* the k-th prompt index, and the end (exclusive) of its span
NthPrompt(lines, k) ==
    CHOOSE i \in PromptIndices(lines) :
        Cardinality({h \in PromptIndices(lines) : h < i}) = k - 1
SpanEnd(lines, i) ==
    IF \E j \in PromptIndices(lines) : j > i
    THEN CHOOSE j \in PromptIndices(lines) :
             j > i /\ \A h \in PromptIndices(lines) : h > i => j <= h
    ELSE Len(lines) + 1

RECURSIVE Flatten(_)
Flatten(qs) == IF qs = <<>> THEN <<>> ELSE Head(qs) \o Flatten(Tail(qs))

\* the text segments of one line, if it is an assistant line with blocks
TextSegments(line) ==
    IF line.type = "assistant" /\ line.message.content.kind = "array"
    THEN LET texts == SelectSeq(line.message.content.blocks,
                                LAMBDA b : b.type = "text" /\ b.text # <<>>)
         IN  [h \in DOMAIN texts |-> texts[h].text]
    ELSE <<>>

\* the paths modified by one line, if it is an assistant line with blocks
PathOf(b) == IF b.input.file_path # "" THEN b.input.file_path ELSE b.input.notebook_path
ModifiedPaths(line) ==
    IF line.type = "assistant" /\ line.message.content.kind = "array"
    THEN LET uses == SelectSeq(line.message.content.blocks,
                               LAMBDA b : /\ b.type = "tool_use"
                                          /\ b.name \in FileModificationTools
                                          /\ b.input.present
                                          /\ PathOf(b) # "")
         IN  [h \in DOMAIN uses |-> PathOf(uses[h])]
    ELSE <<>>

\* q without the elements that occurred before: first-seen order
FirstOccurrences(q) ==
    LET keep == {i \in DOMAIN q : \A h \in 1..(i - 1) : q[h] # q[i]}
        F[i \in 0..Len(q)] ==
            IF i = 0 THEN <<>>
            ELSE IF i \in keep THEN Append(F[i - 1], q[i]) ELSE F[i - 1]
    IN  F[Len(q)]

ResponsesIn(lines, from, to) == Flatten([h \in 1..(to - from) |-> TextSegments(lines[from + h - 1])])
FilesIn(lines, from, to) ==
    FirstOccurrences(Flatten([h \in 1..(to - from) |-> ModifiedPaths(lines[from + h - 1])]))

\* C8: extractAllPromptResponses returns one pair per line holding a
\* non-empty user prompt, in order, so that the pairs' prompts are
\* extractAllUserPrompts(lines); the pair of prompt index i, with j the next
\* prompt index or the end of lines, has the prompt text at i, the assistant
\* text segments of lines [i, j) as responses and the deduplicated modified
\* files of lines [i, j) as files.
C8_PairsSpanPromptToPrompt ==
    op = "extractAllPromptResponses"
        => /\ Len(ret) = Cardinality(PromptIndices(transcript))
           /\ [k \in DOMAIN ret |-> ret[k].prompt] = extractAllUserPrompts(transcript)
           /\ \A k \in DOMAIN ret :
                 LET i == NthPrompt(transcript, k)
                     j == SpanEnd(transcript, i)
                 IN  /\ ret[k].prompt = extractUserContent(transcript[i].message)
                     /\ ret[k].responses = ResponsesIn(transcript, i, j)
                     /\ ret[k].files = FilesIn(transcript, i, j)

C8_Witness ==
    /\ op = "extractAllPromptResponses"
    /\ Len(transcript) = 4
    /\ TextSegments(transcript[1]) # <<>>
    /\ Len(ret) = 2
    /\ ret[1].prompt = <<"write", " ", "a", " ", "file">>
    /\ ret[1].responses = <<<<"Thanks!">>>>
    /\ ret[1].files = <<"/foo.ts", "/nb.ipynb">>
    /\ ret[2].prompt = <<"looks", " ", "good">>
    /\ ret[2].responses = <<>>
    /\ ret[2].files = <<>>

----------------------------------------------------------------------------
(* parseFromString (parse.ts) *)

\* The text of a JSON object that is a transcript line is one token of kind
\* "rec"; JSON.parse maps it to the line it denotes.  The records below are
\* those of the subagent transcripts the loader returns.
JSONRecord ==
    [key \in {"sa1", "sa2", "sa3", "up", "nb", "ur"} |->
        CASE key = "sa1" ->
               TranscriptLine("assistant", "sa1",
                   Message(ArrayContent(<<ToolUseBlock("Write", ToolInput("/sub.ts", ""))>>),
                           "sub_msg1", MessageUsage(50, 1, 2, 25)))
          [] key = "sa2" ->
               TranscriptLine("assistant", "sa2",
                   Message(ArrayContent(<<ToolUseBlock("Edit", ToolInput("/main.ts", "")),
                                          ToolUseBlock("Write", ToolInput("/sub2.ts", ""))>>),
                           "sub_msg1", MessageUsage(50, 1, 2, 30)))
          [] key = "sa3" ->
               TranscriptLine("assistant", "sa3",
                   Message(ArrayContent(<<ToolUseBlock("Write", ToolInput("/sub.ts", ""))>>),
                           "sub_msg2", MessageUsage(7, 0, 0, 3)))
          [] key = "up" -> userLine("up", <<"hello">>)
          [] key = "nb" ->
               TranscriptLine("assistant", "nb",
                   Message(ArrayContent(<<NullBlock, TextBlock(<<"ok">>)>>), "", NoUsage))
          [] key = "ur" ->
               TranscriptLine("user", "ur",
                   Message(ArrayContent(<<ToolResultBlock("tu_1", StringResult(<<"done">>)),
                                          NullBlock>>), "", NoUsage))]

Rec(key) == Tok("rec", key, 2)

\* a JSON object without type, uuid and message; a number or an array reads
\* the same: every field of it is undefined
BareObject == TranscriptLine("", "", Message(NoContent, "", NoUsage))

RECURSIVE trimEnd(_)
trimEnd(s) ==
    IF s # <<>> /\ s[Len(s)].k \in {"ws", "nl"} THEN trimEnd(SubSeq(s, 1, Len(s) - 1)) ELSE s

\* JSON.parse(trimmed) as TranscriptLine
parseLine(trimmed) ==
    IF Len(trimmed) = 1 /\ trimmed[1].k = "rec"
    THEN [ok |-> TRUE, value |-> JSONRecord[trimmed[1].v]]
    ELSE IF Len(trimmed) = 1 /\ trimmed[1].k = "null" THEN [ok |-> TRUE, value |-> NullLine]
    ELSE IF Len(trimmed) = 1 /\ trimmed[1].k = "num" THEN [ok |-> TRUE, value |-> BareObject]
    ELSE IF IsWrapper(NonWs(trimmed)) THEN [ok |-> TRUE, value |-> BareObject]
    ELSE [ok |-> FALSE, value |-> BareObject]

RECURSIVE parseRawLines_StopAtMalformed(_)
\* mutant: a malformed line ends the loop
parseRawLines_StopAtMalformed(rawLines) ==
    IF rawLines = <<>> THEN <<>>
    ELSE LET trimmed == trimEnd(trimStart(Head(rawLines))) IN
         IF trimmed = <<>> THEN parseRawLines_StopAtMalformed(Tail(rawLines))
         ELSE IF parseLine(trimmed).ok
         THEN <<parseLine(trimmed).value>> \o parseRawLines_StopAtMalformed(Tail(rawLines))
         ELSE <<>>

RECURSIVE parseRawLines(_)
parseRawLines(rawLines) ==
    IF rawLines = <<>> THEN <<>>
    ELSE LET trimmed == trimEnd(trimStart(Head(rawLines))) IN
         IF trimmed = <<>> THEN parseRawLines(Tail(rawLines))
         ELSE IF parseLine(trimmed).ok
         THEN <<parseLine(trimmed).value>> \o parseRawLines(Tail(rawLines))
         ELSE parseRawLines(Tail(rawLines))

parseFromString(c) == parseRawLines(Split(c))

----------------------------------------------------------------------------
(* extractSpawnedAgentIds, calculateTotalTokenUsage, extractAllModifiedFiles
   (extract.ts) *)

\* the words of tool-result texts made of [a-zA-Z0-9] only
AlnumWords == {"agentId", "sub1", "sub2", "Task", "done", "ok"}

RECURSIVE endOfRun(_, _)
\* while (end < text.length && /[a-zA-Z0-9]/.test(text[end])) end++
endOfRun(text, end) ==
    IF end <= Len(text) /\ text[end] \in AlnumWords THEN endOfRun(text, end + 1) ELSE end

\* mutant: the identifier is read after the last occurrence of the marker
extractAgentIdFromText_LastMarker(text) ==
    LET prefix == <<"agentId", ":", " ">>
        hits == {i \in 1..(Len(text) - 2) : SubSeq(text, i, i + 2) = prefix}
    IN  IF hits = {} THEN <<>>
        ELSE LET idx == CHOOSE i \in hits : \A h \in hits : i >= h
                 start == idx + Len(prefix)
                 end == endOfRun(text, start)
             IN  IF end > start THEN SubSeq(text, start, end - 1) ELSE <<>>

\* <<>> stands for null
extractAgentIdFromText(text) ==
    LET prefix == <<"agentId", ":", " ">>
        hits == {i \in 1..(Len(text) - 2) : SubSeq(text, i, i + 2) = prefix}
    IN  IF hits = {} THEN <<>>
        ELSE LET idx == CHOOSE i \in hits : \A h \in hits : i <= h
                 start == idx + Len(prefix)
                 end == endOfRun(text, start)
             IN  IF end > start THEN SubSeq(text, start, end - 1) ELSE <<>>

RECURSIVE textOfParts(_)
textOfParts(parts) ==
    IF parts = <<>> THEN <<>>
    ELSE LET tb == Head(parts) IN
         IF tb.type = "text" /\ tb.text # <<>>
         THEN tb.text \o <<"\n">> \o textOfParts(Tail(parts))
         ELSE textOfParts(Tail(parts))

textContentOf(block) ==
    IF block.content.kind = "array" THEN textOfParts(block.content.parts)
    ELSE IF block.content.kind = "string" THEN block.content.text
    ELSE <<>>

RECURSIVE agentIdsOfBlocks(_, _)
agentIdsOfBlocks(blocks, agentIds) ==
    IF blocks = <<>> THEN agentIds
    ELSE LET block == Head(blocks)
             agentId == extractAgentIdFromText(textContentOf(block))
         IN  IF /\ block.type = ContentType.ToolResult
                /\ agentId # <<>>
                /\ block.tool_use_id # ""
             THEN agentIdsOfBlocks(Tail(blocks), MapSet(agentIds, agentId, block.tool_use_id))
             ELSE agentIdsOfBlocks(Tail(blocks), agentIds)

RECURSIVE agentIdsOfLines(_, _)
agentIdsOfLines(lines, agentIds) ==
    IF lines = <<>> THEN agentIds
    ELSE LET line == Head(lines) IN
         IF line.type = MessageType.User /\ HasBlocks(line.message)
         THEN agentIdsOfLines(Tail(lines),
                              agentIdsOfBlocks(line.message.content.blocks, agentIds))
         ELSE agentIdsOfLines(Tail(lines), agentIds)

extractSpawnedAgentIds(lines) == agentIdsOfLines(lines, <<>>)

\* what the loader callback returns: null, or the raw transcript
Null == [isNull |-> TRUE, text |-> <<>>]
Loaded(text) == [isNull |-> FALSE, text |-> text]
\* !content
Falsy(loaded) == loaded.isNull \/ loaded.text = <<>>

addUsage(total, agentUsage) ==
    [total EXCEPT !.inputTokens = @ + agentUsage.inputTokens,
                  !.cacheCreationTokens = @ + agentUsage.cacheCreationTokens,
                  !.cacheReadTokens = @ + agentUsage.cacheReadTokens,
                  !.outputTokens = @ + agentUsage.outputTokens,
                  !.apiCallCount = @ + agentUsage.apiCallCount]

RECURSIVE subagentUsageOf_BreakOnMiss(_, _, _)
\* mutant: the loop ends at the first subagent without transcript
subagentUsageOf_BreakOnMiss(agentIds, load, acc) ==
    IF agentIds = <<>> THEN acc
    ELSE LET loaded == load[Head(agentIds)] IN
         IF Falsy(loaded) THEN acc
         ELSE subagentUsageOf_BreakOnMiss(Tail(agentIds), load,
                  [subagentUsage |-> addUsage(acc.subagentUsage,
                                              calculateTokenUsage(parseFromString(loaded.text))),
                   hasSubagentData |-> TRUE])

RECURSIVE subagentUsageOf(_, _, _)
subagentUsageOf(agentIds, load, acc) ==
    IF agentIds = <<>> THEN acc
    ELSE LET loaded == load[Head(agentIds)] IN
         IF Falsy(loaded) THEN subagentUsageOf(Tail(agentIds), load, acc)
         ELSE subagentUsageOf(Tail(agentIds), load,
                  [subagentUsage |-> addUsage(acc.subagentUsage,
                                              calculateTokenUsage(parseFromString(loaded.text))),
                   hasSubagentData |-> TRUE])

calculateTotalTokenUsage(lines, load) ==
    LET mainUsage == calculateTokenUsage(lines)
        agentIds == extractSpawnedAgentIds(lines)
        sub == subagentUsageOf(MapKeys(agentIds), load,
                               [subagentUsage |-> emptyTokenUsage, hasSubagentData |-> FALSE])
    IN  IF Len(agentIds) > 0 /\ sub.hasSubagentData
        THEN [inputTokens |-> mainUsage.inputTokens,
              cacheCreationTokens |-> mainUsage.cacheCreationTokens,
              cacheReadTokens |-> mainUsage.cacheReadTokens,
              outputTokens |-> mainUsage.outputTokens,
              apiCallCount |-> mainUsage.apiCallCount,
              subagentTokens |-> sub.subagentUsage]
        ELSE mainUsage

RECURSIVE subagentFilesOf(_, _)
subagentFilesOf(agentIds, load) ==
    IF agentIds = <<>> THEN <<>>
    ELSE LET loaded == load[Head(agentIds)] IN
         IF Falsy(loaded) THEN subagentFilesOf(Tail(agentIds), load)
         ELSE extractModifiedFiles(parseFromString(loaded.text))
                  \o subagentFilesOf(Tail(agentIds), load)

\* mutant: the combined list is returned without deduplication
extractAllModifiedFiles_NoDedup(lines, load) ==
    extractModifiedFiles(lines)
        \o subagentFilesOf(MapKeys(extractSpawnedAgentIds(lines)), load)

extractAllModifiedFiles(lines, load) ==
    deduplicateStrings(extractModifiedFiles(lines)
                           \o subagentFilesOf(MapKeys(extractSpawnedAgentIds(lines)), load))

----------------------------------------------------------------------------
(* Subagent aggregation calls *)

\* a main transcript: usage and modified files of its own (one path that a
\* subagent modifies too, ahead of one that only the main transcript has),
\* and Task results naming subagents sub1 (twice) and sub2
SubagentLines ==
    {TranscriptLine("assistant", "a1",
         Message(ArrayContent(<<ToolUseBlock("Write", ToolInput("/main.ts", ""))>>),
                 "msg1", MessageUsage(100, 3, 4, 50))),
     assistantLine("a2", <<ToolUseBlock("Edit", ToolInput("/sub.ts", "")),
                           ToolUseBlock("Write", ToolInput("/only.ts", ""))>>),
     toolResultLine("u1", "tu_1",
         StringResult(<<"Task", " ", "done", ".", "\n", "agentId", ":", " ", "sub1", "\n">>)),
     toolResultLine("u2", "tu_2", ArrayResult(<<TextPart(<<"agentId", ":", " ", "sub2">>)>>)),
     toolResultLine("u3", "tu_3", StringResult(<<"agentId", ":", " ", "sub1">>))}

AgentIds == {<<"sub1">>, <<"sub2">>}

\* what a loader returns for one id: null, the empty string, a blank line,
\* two streamed rows of one message, or rows around a malformed line
LoaderResults ==
    {Null,
     Loaded(<<>>),
     Loaded(<<NL>>),
     Loaded(<<Rec("sa1"), NL, Rec("sa2"), NL>>),
     Loaded(<<WS, Rec("sa3"), WS, NL, ChA, NL, Rec("sa1")>>)}

InitSubagents ==
    /\ ConvertIdle
    /\ op = "init"
    /\ args = <<>>
    /\ transcript \in SeqsUpTo(SubagentLines, MaxLines)
    /\ checkpoint = ""
    /\ loader = <<>>
    /\ ret = <<>>
    /\ ChunkIdle

CallCalculateTotalTokenUsage ==
    /\ op = "init"
    /\ \E load \in [AgentIds -> LoaderResults] :
         /\ loader' = load
         /\ ret' = calculateTotalTokenUsage(transcript, load)
    /\ op' = "calculateTotalTokenUsage"
    /\ UNCHANGED <<convertVars, transcript, checkpoint, args, chunkVars>>

CallExtractAllModifiedFiles ==
    /\ op = "init"
    /\ \E load \in [AgentIds -> LoaderResults] :
         /\ loader' = load
         /\ ret' = extractAllModifiedFiles(transcript, load)
    /\ op' = "extractAllModifiedFiles"
    /\ UNCHANGED <<convertVars, transcript, checkpoint, args, chunkVars>>

NextSubagents == CallCalculateTotalTokenUsage \/ CallExtractAllModifiedFiles

SpecSubagents == InitSubagents /\ [][NextSubagents]_vars

\* the discovered subagent ids, in discovery order
Discovered == MapKeys(extractSpawnedAgentIds(transcript))
\* those for which the loader returned a transcript (a string, not null)
ReturnedIds == SelectSeq(Discovered, LAMBDA id : ~loader[id].isNull)
\* those for which the loader returned a non-empty transcript
ReturnedNonEmptyIds == SelectSeq(Discovered, LAMBDA id : ~loader[id].isNull /\ loader[id].text # <<>>)

UsageOfSubagent(id) == calculateTokenUsage(parseFromString(loader[id].text))

RECURSIVE SumUsageField(_, _)
SumUsageField(ids, field) ==
    IF ids = <<>> THEN 0
    ELSE UsageOfSubagent(Head(ids))[field] + SumUsageField(Tail(ids), field)

TokenFields ==
    {"inputTokens", "cacheCreationTokens", "cacheReadTokens", "outputTokens", "apiCallCount"}

TotalUsageOver(attachedFor, summedOver) ==
    /\ \A f \in TokenFields : ret[f] = calculateTokenUsage(transcript)[f]
    /\ "subagentTokens" \in DOMAIN ret <=> attachedFor # <<>>
    /\ "subagentTokens" \in DOMAIN ret
          => \A f \in TokenFields : ret.subagentTokens[f] = SumUsageField(summedOver, f)

\* C6, as stated: the top-level fields equal calculateTokenUsage(lines)
\* whatever the loader returns; subagentTokens is attached if and only if
\* the loader returned a transcript for at least one discovered id, and is
\* then the field-wise sum of calculateTokenUsage(parseFromString(transcript))
\* over the ids whose transcript was returned.
C6_AttachedIffTranscriptReturned ==
    op = "calculateTotalTokenUsage" => TotalUsageOver(ReturnedIds, ReturnedIds)

\* C6, amended: the same, with subagentTokens attached if and only if the
\* loader returned a non-empty transcript for at least one discovered id (an
\* empty string is skipped like none).
C6_AttachedIffNonEmptyTranscriptReturned ==
    op = "calculateTotalTokenUsage" => TotalUsageOver(ReturnedNonEmptyIds, ReturnedIds)

C6_Witness ==
    /\ op = "calculateTotalTokenUsage"
    /\ Discovered = <<<<"sub1">>, <<"sub2">>>>
    /\ loader[<<"sub1">>] = Null
    /\ loader[<<"sub2">>] = Loaded(<<WS, Rec("sa3"), WS, NL, ChA, NL, Rec("sa1")>>)
    /\ ret.inputTokens = 100
    /\ ret.apiCallCount = 1
    /\ "subagentTokens" \in DOMAIN ret
    /\ ret.subagentTokens.inputTokens = 57
    /\ ret.subagentTokens.outputTokens = 28
    /\ ret.subagentTokens.apiCallCount = 2

MainFiles == Range(extractModifiedFiles(transcript))
FilesOfSubagent(id) == extractModifiedFiles(parseFromString(loader[id].text))
SubagentFiles == UNION {Range(FilesOfSubagent(ReturnedIds[i])) : i \in DOMAIN ReturnedIds}

\* main transcript files, then each loadable subagent's files, in discovery order
CombinedFiles ==
    extractModifiedFiles(transcript)
        \o Flatten([i \in DOMAIN ReturnedIds |-> FilesOfSubagent(ReturnedIds[i])])

UnionInFirstSeenOrder ==
    /\ Range(ret) = MainFiles \cup SubagentFiles
    /\ \A i, j \in DOMAIN ret : i # j => ret[i] # ret[j]
    /\ ret = FirstOccurrences(CombinedFiles)

\* C7, as stated: extractAllModifiedFiles returns the union of the main
\* transcript's files and every loadable subagent's files, without
\* duplicates, in first-seen order over 'main files, then each subagent's
\* files in discovery order'; no file of a subagent precedes a file that
\* occurs only in the main transcript.
C7_NoSubagentFileBeforeMainOnlyFile ==
    op = "extractAllModifiedFiles"
        => /\ UnionInFirstSeenOrder
           /\ \A i, j \in DOMAIN ret :
                 (ret[i] \in SubagentFiles /\ ret[j] \in MainFiles \ SubagentFiles) => ~(i < j)

\* C7, amended: the same union in first-seen order; no file that occurs only
\* in subagent transcripts precedes a file of the main transcript.
C7_NoSubagentOnlyFileBeforeMainFile ==
    op = "extractAllModifiedFiles"
        => /\ UnionInFirstSeenOrder
           /\ \A i, j \in DOMAIN ret :
                 (ret[i] \in SubagentFiles \ MainFiles /\ ret[j] \in MainFiles) => ~(i < j)

C7_Witness ==
    /\ op = "extractAllModifiedFiles"
    /\ Discovered = <<<<"sub2">>, <<"sub1">>>>
    /\ loader[<<"sub1">>] = Loaded(<<WS, Rec("sa3"), WS, NL, ChA, NL, Rec("sa1")>>)
    /\ loader[<<"sub2">>] = Loaded(<<Rec("sa1"), NL, Rec("sa2"), NL>>)
    /\ CombinedFiles = <<"/main.ts", "/sub.ts", "/main.ts", "/sub2.ts", "/sub.ts">>
    /\ ret = <<"/main.ts", "/sub.ts", "/sub2.ts">>

----------------------------------------------------------------------------
(* parseFromStringAtLine (parse.ts) and the parsing calls *)

RECURSIVE parseAtLineLoop_CountBlank(_, _, _, _)
\* mutant: blank lines are skipped after they are counted
parseAtLineLoop_CountBlank(rawLines, startLine, lines, totalLines) ==
    IF rawLines = <<>> THEN [lines |-> lines, totalLines |-> totalLines]
    ELSE LET trimmed == trimEnd(trimStart(Head(rawLines))) IN
         parseAtLineLoop_CountBlank(Tail(rawLines), startLine,
             IF trimmed # <<>> /\ totalLines >= startLine /\ parseLine(trimmed).ok
             THEN Append(lines, parseLine(trimmed).value) ELSE lines,
             totalLines + 1)

RECURSIVE parseAtLineLoop(_, _, _, _)
\* the for loop of parseFromStringAtLine
parseAtLineLoop(rawLines, startLine, lines, totalLines) ==
    IF rawLines = <<>> THEN [lines |-> lines, totalLines |-> totalLines]
    ELSE LET trimmed == trimEnd(trimStart(Head(rawLines))) IN
         IF trimmed = <<>> THEN parseAtLineLoop(Tail(rawLines), startLine, lines, totalLines)
         ELSE parseAtLineLoop(Tail(rawLines), startLine,
                  IF totalLines >= startLine /\ parseLine(trimmed).ok
                  THEN Append(lines, parseLine(trimmed).value) ELSE lines,
                  totalLines + 1)

parseFromStringAtLine(c, startLine) == parseAtLineLoop(Split(c), startLine, <<>>, 0)

\* line-delimited transcripts: records, blanks, blank lines, malformed text
ParseContents == SeqsUpTo({NL, WS, ChA, Rec("sa1"), Rec("sa2")}, MaxContentLen)
StartLines == 0..MaxLines

InitParse ==
    /\ ConvertIdle
    /\ op = "init"
    /\ content \in ParseContents
    /\ maxSize = 0
    /\ agentType = ""
    /\ chunked = NoOutcome
    /\ joined = Value(<<>>)
    /\ ExtractIdle

CallParseFromString ==
    /\ op = "init"
    /\ ret' = parseFromString(content)
    /\ op' = "parseFromString"
    /\ UNCHANGED <<convertVars, chunkVars, transcript, checkpoint, loader, args>>

CallParseFromStringAtLine ==
    /\ op = "init"
    /\ \E startLine \in StartLines :
         /\ args' = [startLine |-> startLine]
         /\ ret' = parseFromStringAtLine(content, startLine)
    /\ op' = "parseFromStringAtLine"
    /\ UNCHANGED <<convertVars, chunkVars, transcript, checkpoint, loader>>

NextParse == CallParseFromStringAtLine \/ CallParseFromString

SpecParse == InitParse /\ [][NextParse]_vars

\* the lines of content, as split on the newline character (0-based index
\* i is AllLines[i + 1]); empty content has no line
AllLines == LinesOf(content)
IsBlank(line) == \A i \in DOMAIN line : line[i].k \in {"ws", "nl"}
\* a line parses as JSON when it is the text of one JSON value between blanks
IsJSON(line) ==
    LET t == NonWs(line) IN
    \/ Len(t) = 1 /\ t[1].k = "rec"
    \/ IsWrapper(t)
RecordOf(line) == LET t == NonWs(line) IN IF t[1].k = "rec" THEN JSONRecord[t[1].v] ELSE BareObject

RECURSIVE Ascending(_)
\* the members of a set of indices in ascending order
Ascending(S) ==
    IF S = {} THEN <<>>
    ELSE LET m == CHOOSE x \in S : \A y \in S : x <= y IN <<m>> \o Ascending(S \ {m})

RecordsAt(indices) == [k \in 1..Len(Ascending(indices)) |-> RecordOf(AllLines[Ascending(indices)[k]])]

NonBlankLines == Ascending({i \in DOMAIN AllLines : ~IsBlank(AllLines[i])})

C12_OneRecordPerParsableLine ==
    op = "parseFromString" =>
        /\ ret = RecordsAt({i \in DOMAIN AllLines :
                               ~IsBlank(AllLines[i]) /\ IsJSON(AllLines[i])})
        /\ (IsBlank(content) => ret = <<>>)

C12_Witness ==
    /\ op = "parseFromString"
    /\ content = <<Rec("sa1"), NL, ChA, NL, Rec("sa2")>>
    /\ ret = <<JSONRecord["sa1"], JSONRecord["sa2"]>>

----------------------------------------------------------------------------
(* The message-array parser (parsers/gemini/parse.ts) and its token usage
   (parsers/gemini/extract.ts).

   A JSON text is a record [form, value]: form "compact" is the text
   JSON.stringify writes, "spaced" a text with blanks between its pieces,
   "malformed" a text that is not JSON and "empty" the empty string; value
   is the JSON value a well-formed text denotes.  A text is a sequence of
   symbols, "\n" among them. *)

GeminiMessageType == [User |-> "user", Gemini |-> "gemini"]

\* tokens?: GeminiMessageTokens
NoTokens == [present |-> FALSE, input |-> 0, output |-> 0, cached |-> 0]
GeminiMessageTokens(input, output, cached) ==
    [present |-> TRUE, input |-> input, output |-> output, cached |-> cached]

\* content?: string | Array<{ text?: string }>, and what else JSON can hold
RawAbsent == [kind |-> "absent", text |-> <<>>, parts |-> <<>>]
RawNumber == [kind |-> "number", text |-> <<>>, parts |-> <<>>]
RawString(text) == [kind |-> "string", text |-> text, parts |-> <<>>]
RawArray(parts) == [kind |-> "array", text |-> <<>>, parts |-> parts]

\* the elements of an array content
PartWithText(text) == [kind |-> "object", hasText |-> TRUE, text |-> text]
PartWithoutText == [kind |-> "object", hasText |-> FALSE, text |-> <<>>]
PartNull == [kind |-> "null", hasText |-> FALSE, text |-> <<>>]

\* an element of the messages array: an object ("" = field absent) or null
RawGeminiMessage(id, type, msgContent, toolCalls, tokens) ==
    [kind |-> "object", id |-> id, type |-> type, content |-> msgContent,
     toolCalls |-> toolCalls, tokens |-> tokens]
NullElement ==
    [kind |-> "null", id |-> "", type |-> "", content |-> RawAbsent,
     toolCalls |-> <<>>, tokens |-> NoTokens]

GeminiMessage(id, type, text, toolCalls, tokens) ==
    [id |-> id, type |-> type, content |-> text, toolCalls |-> toolCalls, tokens |-> tokens]

\* JSON values: null, a number, an object whose messages field is absent,
\* null, a number, a string or an array
NoItems == <<>>
JSONNull == [kind |-> "null", messages |-> "absent", items |-> NoItems]
JSONNumber == [kind |-> "number", messages |-> "absent", items |-> NoItems]
JSONObject(messages, items) == [kind |-> "object", messages |-> messages, items |-> items]
GeminiDocument(items) == JSONObject("array", items)

JSONText(form, value) == [form |-> form, value |-> value]
WellFormed(data) == data.form \in {"compact", "spaced"}

Threw(error) == [threw |-> TRUE, error |-> error, messages |-> <<>>]
GeminiTranscript(messages) == [threw |-> FALSE, error |-> "", messages |-> messages]

RECURSIVE textsOfParts_StopAtNoText(_)
\* mutant: the first element without text ends the loop
textsOfParts_StopAtNoText(parts) ==
    IF parts = <<>> THEN <<>>
    ELSE LET part == Head(parts) IN
         IF part.kind = "object" /\ part.hasText
         THEN (IF part.text # <<>> THEN <<part.text>> ELSE <<>>)
              \o textsOfParts_StopAtNoText(Tail(parts))
         ELSE <<>>

RECURSIVE textsOfParts(_)
\* the loop over rawMsg.content that fills texts
textsOfParts(parts) ==
    IF parts = <<>> THEN <<>>
    ELSE LET part == Head(parts) IN
         IF part.kind = "object" /\ part.hasText
         THEN (IF part.text # <<>> THEN <<part.text>> ELSE <<>>) \o textsOfParts(Tail(parts))
         ELSE textsOfParts(Tail(parts))

\* the callback of raw.messages.map
normaliseMessage(rawMsg) ==
    GeminiMessage(rawMsg.id, rawMsg.type,
        IF rawMsg.content.kind = "string" THEN rawMsg.content.text
        ELSE IF rawMsg.content.kind = "array"
        THEN Join(textsOfParts(rawMsg.content.parts), <<"\n">>)
        ELSE <<>>,
        rawMsg.toolCalls, rawMsg.tokens)

parseTranscript(data) ==
    IF ~WellFormed(data) THEN Threw("SyntaxError")
    ELSE LET raw == data.value IN
         IF raw.kind = "null" THEN Threw("TypeError")             \* raw.messages of null
         ELSE IF raw.kind # "object" \/ raw.messages \in {"absent", "null"}
         THEN GeminiTranscript(<<>>)                              \* raw.messages || []
         ELSE IF raw.messages # "array" THEN Threw("TypeError")   \* .map is not a function
         ELSE IF \E i \in DOMAIN raw.items : raw.items[i].kind = "null"
         THEN Threw("TypeError")                                  \* rawMsg.id of null
         ELSE GeminiTranscript([i \in DOMAIN raw.items |-> normaliseMessage(raw.items[i])])

\* JSON.stringify({ messages }) of parsed messages
stringifyTranscript(messages) ==
    JSONText("compact",
        GeminiDocument([i \in DOMAIN messages |->
            RawGeminiMessage(messages[i].id, messages[i].type, RawString(messages[i].content),
                             messages[i].toolCalls, messages[i].tokens)]))

Sliced(data) == [threw |-> FALSE, error |-> "", value |-> data]

\* mutant: the slice starts one message late
sliceFromMessage_OneLate(data, startMessageIndex) ==
    IF data.form = "empty" \/ startMessageIndex <= 0 THEN Sliced(data)
    ELSE LET transcript_ == parseTranscript(data) IN
         IF transcript_.threw
         THEN [threw |-> TRUE, error |-> transcript_.error, value |-> data]
         ELSE IF startMessageIndex >= Len(transcript_.messages)
         THEN Sliced(stringifyTranscript(<<>>))
         ELSE Sliced(stringifyTranscript(
                  SubSeq(transcript_.messages, startMessageIndex + 2, Len(transcript_.messages))))

sliceFromMessage(data, startMessageIndex) ==
    IF data.form = "empty" \/ startMessageIndex <= 0 THEN Sliced(data)
    ELSE LET transcript_ == parseTranscript(data) IN
         IF transcript_.threw
         THEN [threw |-> TRUE, error |-> transcript_.error, value |-> data]
         ELSE IF startMessageIndex >= Len(transcript_.messages)
         THEN Sliced(stringifyTranscript(<<>>))
         ELSE Sliced(stringifyTranscript(
                  SubSeq(transcript_.messages, startMessageIndex + 1, Len(transcript_.messages))))

RECURSIVE geminiUsageLoop_AnyType(_, _, _)
\* mutant: messages of every type are counted
geminiUsageLoop_AnyType(messages, i, usage) ==
    IF ~(i < Len(messages)) THEN usage
    ELSE LET msg == messages[i + 1] IN
         IF ~msg.tokens.present THEN geminiUsageLoop_AnyType(messages, i + 1, usage)
         ELSE geminiUsageLoop_AnyType(messages, i + 1,
                  [usage EXCEPT !.apiCallCount = @ + 1,
                                !.inputTokens = @ + msg.tokens.input,
                                !.outputTokens = @ + msg.tokens.output,
                                !.cacheReadTokens = @ + msg.tokens.cached])

RECURSIVE geminiUsageLoop(_, _, _)
\* the for loop of calculateTokenUsage; i is the 0-based loop index
geminiUsageLoop(messages, i, usage) ==
    IF ~(i < Len(messages)) THEN usage
    ELSE LET msg == messages[i + 1] IN
         IF msg.type # GeminiMessageType.Gemini THEN geminiUsageLoop(messages, i + 1, usage)
         ELSE IF ~msg.tokens.present THEN geminiUsageLoop(messages, i + 1, usage)
         ELSE geminiUsageLoop(messages, i + 1,
                  [usage EXCEPT !.apiCallCount = @ + 1,
                                !.inputTokens = @ + msg.tokens.input,
                                !.outputTokens = @ + msg.tokens.output,
                                !.cacheReadTokens = @ + msg.tokens.cached])

\* calculateTokenUsage of parsers/gemini/extract.ts
geminiCalculateTokenUsage(messages, startMessageIndex) ==
    geminiUsageLoop(messages, startMessageIndex, emptyTokenUsage)

----------------------------------------------------------------------------
(* The message-array calls *)

NoToolCalls == <<>>

\* the elements of the messages arrays
RawMessages ==
    {RawGeminiMessage("u1", "user", RawString(<<"hello">>), NoToolCalls,
                      GeminiMessageTokens(10, 0, 0)),
     RawGeminiMessage("a1", "gemini", RawString(<<"hi", " ", "there">>), NoToolCalls,
                      GeminiMessageTokens(100, 50, 5)),
     RawGeminiMessage("a2", "gemini", RawAbsent, <<"write_file">>,
                      GeminiMessageTokens(200, 100, 10)),
     RawGeminiMessage("a3", "gemini", RawNumber, NoToolCalls, NoTokens),
     RawGeminiMessage("u2", "user",
                      RawArray(<<PartWithText(<<"first">>), PartWithText(<<"second">>)>>),
                      NoToolCalls, NoTokens),
     RawGeminiMessage("", "user",
                      RawArray(<<PartWithText(<<"first">>), PartNull, PartWithText(<<>>),
                                 PartWithoutText, PartWithText(<<"second">>)>>),
                      NoToolCalls, NoTokens),
     NullElement}

\* what a syntactically valid JSON text can denote
JSONValues ==
    {JSONNull, JSONNumber, JSONObject("absent", NoItems), JSONObject("null", NoItems),
     JSONObject("number", NoItems), JSONObject("string", NoItems)}
    \cup {GeminiDocument(items) : items \in SeqsUpTo(RawMessages, MaxMessages)}

JSONTexts ==
    {JSONText(form, value) : form \in {"compact", "spaced"}, value \in JSONValues}
    \cup {JSONText("malformed", JSONNull), JSONText("empty", JSONNull)}

StartMessageIndices == 0..(MaxMessages + 1)

InitGemini ==
    /\ ConvertIdle
    /\ op = "init"
    /\ content \in JSONTexts
    /\ maxSize = 0
    /\ agentType = ""
    /\ chunked = NoOutcome
    /\ joined = Value(<<>>)
    /\ ExtractIdle

CallParseTranscript ==
    /\ op = "init"
    /\ ret' = parseTranscript(content)
    /\ op' = "parseTranscript"
    /\ UNCHANGED <<convertVars, chunkVars, transcript, checkpoint, loader, args>>

CallSliceFromMessage ==
    /\ op = "init"
    /\ \E startMessageIndex \in StartMessageIndices :
         /\ args' = [startMessageIndex |-> startMessageIndex]
         /\ ret' = sliceFromMessage(content, startMessageIndex)
    /\ op' = "sliceFromMessage"
    /\ UNCHANGED <<convertVars, chunkVars, transcript, checkpoint, loader>>

\* calculateTokenUsage applied to the transcript parseTranscript returned
CallGeminiCalculateTokenUsage ==
    /\ op = "parseTranscript"
    /\ ~ret.threw
    /\ transcript' = ret.messages
    /\ \E startMessageIndex \in StartMessageIndices :
         /\ args' = [startMessageIndex |-> startMessageIndex]
         /\ ret' = geminiCalculateTokenUsage(ret.messages, startMessageIndex)
    /\ op' = "calculateTokenUsage"
    /\ UNCHANGED <<convertVars, chunkVars, checkpoint, loader>>

NextGemini == CallParseTranscript \/ CallSliceFromMessage \/ CallGeminiCalculateTokenUsage

SpecGemini == InitGemini /\ [][NextGemini]_vars

\* the content holds a message-array document: an object whose messages
\* field is an array of message objects
IsDocument(data) ==
    /\ WellFormed(data)
    /\ data.value.kind = "object"
    /\ data.value.messages = "array"
    /\ \A i \in DOMAIN data.value.items : data.value.items[i].kind = "object"

RawItems == content.value.items

\* the text fields of the elements of parts that satisfy keep, in order
TextsWhere(parts, keep(_)) ==
    LET kept == SelectSeq(parts, keep) IN [i \in DOMAIN kept |-> kept[i].text]

HasTextField(part) == part.kind = "object" /\ part.hasText
HasNonEmptyText(part) == HasTextField(part) /\ part.text # <<>>

\* messages are in document order and each content is normalised, an array
\* content to the texts of the elements satisfying keep joined by a newline
NormalisedBy(keep(_)) ==
    /\ Len(ret.messages) = Len(RawItems)
    /\ \A i \in DOMAIN RawItems :
         /\ ret.messages[i].id = RawItems[i].id
         /\ ret.messages[i].type = RawItems[i].type
         /\ RawItems[i].content.kind = "string" =>
                ret.messages[i].content = RawItems[i].content.text
         /\ RawItems[i].content.kind = "array" =>
                ret.messages[i].content = Join(TextsWhere(RawItems[i].content.parts, keep), <<"\n">>)
         /\ RawItems[i].content.kind = "absent" => ret.messages[i].content = <<>>

\* C13: parseTranscript normalises every content: a string verbatim, an
\* array to the text fields of every element that has a text field, in
\* order, joined by a newline, absent content to the empty string; message
\* order is document order.
C13_ContentOfEveryTextField ==
    (op = "parseTranscript" /\ IsDocument(content)) =>
        /\ ~ret.threw
        /\ NormalisedBy(HasTextField)

\* C13 (amended): as C13, with an array content normalised to the text
\* fields of every element that has a non-empty text field.
C13_ContentOfEveryNonEmptyTextField ==
    (op = "parseTranscript" /\ IsDocument(content)) =>
        /\ ~ret.threw
        /\ NormalisedBy(HasNonEmptyText)

C13_Witness ==
    /\ op = "parseTranscript"
    /\ Len(RawItems) = 2
    /\ RawItems[1].content =
           RawArray(<<PartWithText(<<"first">>), PartNull, PartWithText(<<>>),
                      PartWithoutText, PartWithText(<<"second">>)>>)
    /\ RawItems[2].content = RawString(<<"hi", " ", "there">>)
    /\ ret.messages[1].content = <<"first", "\n", "second">>
    /\ ret.messages[2].content = <<"hi", " ", "there">>
    /\ ret.messages[2].id = "a1"

\* C14: parseTranscript raises an error only on a JSON syntax error: for
\* every syntactically valid JSON text, whatever its shape, it returns a
\* transcript.
C14_FailsOnlyOnSyntaxError ==
    (op = "parseTranscript" /\ WellFormed(content)) => ~ret.threw

\* the messages of parseTranscript(content) at 0-based index >= k
MessagesFrom(k) ==
    LET all == parseTranscript(content).messages IN SubSeq(all, k + 1, Len(all))

\* C15: on a message-array document sliceFromMessage(data, k) raises no
\* error; its result parses to the messages of parseTranscript(data) at
\* index >= k, in order; for k at or past the message count it is a
\* document with an empty message list; and the token usage of the parsed
\* result equals the token usage of parseTranscript(data) from index k.
C15_SliceKeepsMessagesFromIndex ==
    (op = "sliceFromMessage" /\ IsDocument(content)) =>
        /\ ~ret.threw
        /\ WellFormed(ret.value)
        /\ ~parseTranscript(ret.value).threw
        /\ parseTranscript(ret.value).messages = MessagesFrom(args.startMessageIndex)
        /\ args.startMessageIndex >= Len(RawItems) =>
               /\ IsDocument(ret.value)
               /\ ret.value.value.items = <<>>
        /\ geminiCalculateTokenUsage(parseTranscript(ret.value).messages, 0)
               = geminiCalculateTokenUsage(parseTranscript(content).messages,
                                           args.startMessageIndex)

C15_Witness ==
    /\ op = "sliceFromMessage"
    /\ IsDocument(content)
    /\ content.form = "spaced"
    /\ Len(RawItems) = 3
    /\ args.startMessageIndex = 1
    /\ RawItems[2].content.kind = "array"
    /\ RawItems[3].tokens.present
    /\ ret.value.form = "compact"
    /\ Len(ret.value.value.items) = 2
    /\ ret.value.value.items[1].content = RawString(<<"first", "\n", "second">>)

\* the messages a scan from 0-based index k counts: type gemini with tokens
CountedFrom(k) ==
    {i \in DOMAIN transcript :
        i - 1 >= k /\ transcript[i].type = "gemini" /\ transcript[i].tokens.present}

RECURSIVE SumTokens(_, _)
SumTokens(indices, field) ==
    IF indices = {} THEN 0
    ELSE LET i == CHOOSE x \in indices : TRUE IN
         transcript[i].tokens[field] + SumTokens(indices \ {i}, field)

UsageOf(indices) ==
    [inputTokens |-> SumTokens(indices, "input"),
     cacheCreationTokens |-> 0,
     cacheReadTokens |-> SumTokens(indices, "cached"),
     outputTokens |-> SumTokens(indices, "output"),
     apiCallCount |-> Cardinality(indices)]

\* C16: calculateTokenUsage with start index k counts each message at index
\* >= k of type gemini with a tokens payload once: apiCallCount is their
\* number, the token fields are the sums of their input, output and cached
\* values, and the result for k plus the contribution of the messages
\* before k is the result for start index 0.
C16_CountsGeminiMessagesWithTokens ==
    op = "calculateTokenUsage" =>
        /\ ret = UsageOf(CountedFrom(args.startMessageIndex))
        /\ addUsage(ret, UsageOf(CountedFrom(0) \ CountedFrom(args.startMessageIndex)))
               = geminiCalculateTokenUsage(transcript, 0)

C16_Witness ==
    /\ op = "calculateTokenUsage"
    /\ Len(transcript) = 3
    /\ args.startMessageIndex = 1
    /\ transcript[1].type = "gemini" /\ transcript[1].tokens.present
    /\ transcript[2].type = "user" /\ transcript[2].tokens.present
    /\ transcript[3].type = "gemini" /\ transcript[3].tokens.present
    /\ ret.apiCallCount = 1
    /\ ret.inputTokens = transcript[3].tokens.input

----------------------------------------------------------------------------
(* The format detection call *)

\* documents and records, with leading and trailing blanks, truncated, and
\* followed by further text
DetectContents ==
    {lead \o body \o trail :
        lead \in {<<>>, <<WS>>, <<NL, WS>>, <<ChA>>},
        body \in GeminiDocs
                 \cup {<<OPEN, stringifyMsg("m1")>>, <<OPEN, stringifyMsg("m1"), COMMA, CLOSE>>,
                       <<Rec("sa1")>>, <<Rec("sa1"), NL, Rec("sa2")>>, <<>>, <<ChA, ChB>>},
        trail \in {<<>>, <<NL>>, <<WS, ChA>>, <<CLOSE>>}}

InitDetect ==
    /\ ConvertIdle
    /\ op = "init"
    /\ content \in DetectContents
    /\ maxSize = 0
    /\ agentType = ""
    /\ chunked = NoOutcome
    /\ joined = Value(<<>>)
    /\ ExtractIdle

CallDetectAgentTypeFromContent ==
    /\ op = "init"
    /\ ret' = detectAgentTypeFromContent(content)
    /\ op' = "detectAgentTypeFromContent"
    /\ UNCHANGED <<convertVars, chunkVars, transcript, checkpoint, loader, args>>

NextDetect == CallDetectAgentTypeFromContent

SpecDetect == InitDetect /\ [][NextDetect]_vars

\* the first character that is not a blank, "" when there is none
FirstNonBlank ==
    IF NonWs(content) = <<>> THEN ""
    ELSE IF NonWs(content)[1].k \in {"open", "rec"} THEN "{" ELSE "other"

\* the whole content is the text of one JSON value with a non-empty
\* messages array
IsNonEmptyMessageArray ==
    LET t == NonWs(content) IN
    /\ Len(t) >= 3
    /\ t[1] = OPEN
    /\ t[Len(t)] = CLOSE
    /\ \A i \in 2..(Len(t) - 1) : t[i].k = (IF i % 2 = 0 THEN "msg" ELSE "comma")
    /\ t[Len(t) - 1].k = "msg"

\* C17: detectAgentTypeFromContent returns "Gemini CLI" exactly when the
\* content, leading whitespace trimmed, starts with "{", parses as a whole
\* as JSON and has a non-empty messages array; otherwise undefined.
C17_GeminiIffNonEmptyMessageArray ==
    op = "detectAgentTypeFromContent" =>
        /\ ret \in {"Gemini CLI", ""}
        /\ ret = "Gemini CLI" <=> (FirstNonBlank = "{" /\ IsNonEmptyMessageArray)

C17_Witness ==
    /\ op = "detectAgentTypeFromContent"
    /\ content = <<NL, WS>> \o JSONStringify(<<"m1", "m2">>) \o <<NL>>
    /\ ret = "Gemini CLI"

----------------------------------------------------------------------------
(* Chunk file names: chunkFileName, parseChunkIndex, sortChunkFiles
   (chunking.ts).  A file name is a sequence of characters. *)

MaxChunkIndex == 12
MaxSuffixLen == 3
MaxFiles == 3

Digits == <<"0", "1", "2", "3", "4", "5", "6", "7", "8", "9">>
IsDigit(ch) == \E d \in DOMAIN Digits : Digits[d] = ch
DigitValue(ch) == (CHOOSE d \in DOMAIN Digits : Digits[d] = ch) - 1

RECURSIVE decimal(_)
\* String(index)
decimal(index) ==
    IF index < 0 THEN <<"-">> \o decimal(-index)
    ELSE IF index < 10 THEN <<Digits[index + 1]>>
    ELSE decimal(index \div 10) \o <<Digits[(index % 10) + 1]>>

RECURSIVE padStart(_, _, _)
padStart(s, targetLength, pad) ==
    IF Len(s) >= targetLength THEN s ELSE padStart(<<pad>> \o s, targetLength, pad)

CHUNK_SUFFIX_FORMAT(index) == <<".">> \o padStart(decimal(index), 3, "0")

chunkFileName(baseName, index) ==
    IF index = 0 THEN baseName ELSE baseName \o CHUNK_SUFFIX_FORMAT(index)

startsWith(s, prefix) == Len(s) >= Len(prefix) /\ SubSeq(s, 1, Len(prefix)) = prefix

RECURSIVE digitRun(_)
\* the longest run of digits a text starts with
digitRun(s) == IF s # <<>> /\ IsDigit(Head(s)) THEN <<Head(s)>> \o digitRun(Tail(s)) ELSE <<>>

RECURSIVE valueOfDigits(_, _)
valueOfDigits(ds, acc) ==
    IF ds = <<>> THEN acc ELSE valueOfDigits(Tail(ds), 10 * acc + DigitValue(Head(ds)))

RECURSIVE skipBlanks(_)
skipBlanks(s) == IF s # <<>> /\ Head(s) = " " THEN skipBlanks(Tail(s)) ELSE s

NaN == [nan |-> TRUE, value |-> 0]
Number(n) == [nan |-> FALSE, value |-> n]

\* parseInt(suffix, 10): leading blanks and one sign are skipped, the
\* digits that follow are read and whatever comes after them is ignored
parseInt(s) ==
    LET t == skipBlanks(s)
        negative == t # <<>> /\ Head(t) = "-"
        u == IF t # <<>> /\ Head(t) \in {"-", "+"} THEN Tail(t) ELSE t
        ds == digitRun(u)
    IN  IF ds = <<>> THEN NaN
        ELSE Number(IF negative THEN -valueOfDigits(ds, 0) ELSE valueOfDigits(ds, 0))

parseChunkIndex(filename, baseName) ==
    IF filename = baseName THEN 0
    ELSE IF ~startsWith(filename, baseName \o <<".">>) THEN -1
    ELSE LET suffix == SubSeq(filename, Len(baseName) + 2, Len(filename))
             index == parseInt(suffix)
         IN  IF index.nan THEN -1 ELSE index.value

RECURSIVE insertSorted(_, _, _)
\* a is placed after every element the comparator does not put after it;
\* compare[x, y] is the value of the comparator function at (x, y)
insertSorted(sorted, a, compare) ==
    IF sorted = <<>> THEN <<a>>
    ELSE IF compare[Head(sorted), a] <= 0
    THEN <<Head(sorted)>> \o insertSorted(Tail(sorted), a, compare)
    ELSE <<a>> \o sorted

RECURSIVE sort(_, _)
\* Array.prototype.sort: stable
sort(array, compare) ==
    IF array = <<>> THEN <<>>
    ELSE insertSorted(sort(SubSeq(array, 1, Len(array) - 1), compare),
                      array[Len(array)], compare)

\* mutant: the comparator is idxB - idxA
sortChunkFiles_Descending(files, baseName) ==
    sort(files, [a \in Range(files), b \in Range(files) |->
                    parseChunkIndex(b, baseName) - parseChunkIndex(a, baseName)])

\* [...files].sort((a, b) => idxA - idxB)
sortChunkFiles(files, baseName) ==
    sort(files, [a \in Range(files), b \in Range(files) |->
                    parseChunkIndex(a, baseName) - parseChunkIndex(b, baseName)])

----------------------------------------------------------------------------
(* The file name calls.  ret is a record with the field name, index or
   sorted, after the value a call returns. *)

BaseNames == {<<"t">>, <<"t", ".", "j">>}
\* indices below and above the three digits of the suffix
ChunkIndices == (0..MaxChunkIndex) \cup {99, 100, 999, 1000, 1001, 1234}
SuffixChars == {"0", "1", "2", "a", "-", " ", "."}
\* the base name, names with a suffix after the dot, and other names
FileNames(baseName) ==
    {baseName \o <<".">> \o suffix : suffix \in SeqsUpTo(SuffixChars, MaxSuffixLen)}
    \cup {baseName, <<"o">>, <<"o", ".", "1">>, baseName \o <<"1">>, <<"x">> \o baseName,
          SubSeq(baseName, 1, Len(baseName) - 1)}
\* names of a directory of chunks: chunks, other files and look-alikes
SortNames(baseName) ==
    {baseName, chunkFileName(baseName, 1), chunkFileName(baseName, 2),
     chunkFileName(baseName, 10), chunkFileName(baseName, 1000),
     <<"o">>, baseName \o <<".", "0", "0", "0">>}

NoNameArgs == [baseName |-> <<>>, index |-> 0, filename |-> <<>>, files |-> <<>>]

InitNames ==
    /\ ConvertIdle
    /\ op = "init"
    /\ ChunkIdle
    /\ transcript = <<>>
    /\ checkpoint = ""
    /\ loader = <<>>
    /\ \E baseName \in BaseNames : args = [NoNameArgs EXCEPT !.baseName = baseName]
    /\ ret = <<>>

CallChunkFileName ==
    /\ op = "init"
    /\ \E index \in ChunkIndices :
         /\ args' = [args EXCEPT !.index = index]
         /\ ret' = [name |-> chunkFileName(args.baseName, index)]
    /\ op' = "chunkFileName"
    /\ UNCHANGED <<convertVars, chunkVars, transcript, checkpoint, loader>>

\* parseChunkIndex applied to the name chunkFileName returned
CallParseChunkIndexOfChunk ==
    /\ op = "chunkFileName"
    /\ args' = [args EXCEPT !.filename = ret.name]
    /\ ret' = [index |-> parseChunkIndex(ret.name, args.baseName)]
    /\ op' = "parseChunkIndexOfChunk"
    /\ UNCHANGED <<convertVars, chunkVars, transcript, checkpoint, loader>>

CallParseChunkIndex ==
    /\ op = "init"
    /\ \E filename \in FileNames(args.baseName) :
         /\ args' = [args EXCEPT !.filename = filename]
         /\ ret' = [index |-> parseChunkIndex(filename, args.baseName)]
    /\ op' = "parseChunkIndex"
    /\ UNCHANGED <<convertVars, chunkVars, transcript, checkpoint, loader>>

\* the sort works on a copy: args.files is the caller's list after the call
CallSortChunkFiles ==
    /\ op = "init"
    /\ \E files \in SeqsUpTo(SortNames(args.baseName), MaxFiles) :
         /\ args' = [args EXCEPT !.files = files]
         /\ ret' = [sorted |-> sortChunkFiles(files, args.baseName)]
    /\ op' = "sortChunkFiles"
    /\ UNCHANGED <<convertVars, chunkVars, transcript, checkpoint, loader>>

NextNames ==
    \/ CallChunkFileName
    \/ CallParseChunkIndexOfChunk
    \/ CallParseChunkIndex
    \/ CallSortChunkFiles

SpecNames == InitNames /\ [][NextNames]_vars

\* index written with at least three digits
ThreeDigits(index) ==
    IF index < 1000
    THEN <<Digits[(index \div 100) + 1], Digits[((index \div 10) % 10) + 1],
           Digits[(index % 10) + 1]>>
    ELSE decimal(index)

\* a text that is an integer: digits only, after an optional minus sign
IsInteger(s) ==
    LET ds == IF s # <<>> /\ Head(s) = "-" THEN Tail(s) ELSE s IN
    ds # <<>> /\ \A i \in DOMAIN ds : IsDigit(ds[i])

IsChunkName(filename, baseName) ==
    \/ filename = baseName
    \/ /\ startsWith(filename, baseName \o <<".">>)
       /\ IsInteger(SubSeq(filename, Len(baseName) + 2, Len(filename)))

ChunkNamesRoundTrip ==
    /\ op = "chunkFileName" =>
           ret.name = IF args.index = 0 THEN args.baseName
                 ELSE args.baseName \o <<".">> \o ThreeDigits(args.index)
    /\ op = "parseChunkIndexOfChunk" => ret.index = args.index

\* C18: chunkFileName(base, 0) is base, chunkFileName(base, n) for n >= 1 is
\* base, a dot and n zero-padded to three digits; parseChunkIndex gives n
\* back for every n >= 0; and parseChunkIndex returns -1 for every file name
\* that is neither base nor base, a dot and an integer.
C18_NamesRoundTripAndOthersUnrecognised ==
    /\ ChunkNamesRoundTrip
    /\ (op = "parseChunkIndex" /\ ~IsChunkName(args.filename, args.baseName)) => ret.index = -1

Count(q, x) == Cardinality({i \in DOMAIN q : q[i] = x})
IsPermutation(p, q) ==
    /\ Len(p) = Len(q)
    /\ \A i \in DOMAIN q : Count(p, q[i]) = Count(q, q[i])

\* a permutation of the input in non-decreasing order of the parsed index
SortedByIndex ==
    /\ IsPermutation(ret.sorted, args.files)
    /\ \A i, j \in DOMAIN ret.sorted :
         i < j => parseChunkIndex(ret.sorted[i], args.baseName)
                      <= parseChunkIndex(ret.sorted[j], args.baseName)

HasBase == \E i \in DOMAIN args.files : args.files[i] = args.baseName

\* C19: sortChunkFiles returns a permutation of files in non-decreasing
\* order of parseChunkIndex and puts the base file first in every input
\* that contains it, whatever the other file names.
C19_BaseFirstWhateverTheOthers ==
    op = "sortChunkFiles" =>
        /\ SortedByIndex
        /\ HasBase => ret.sorted[1] = args.baseName

\* C19 (amended): as C19, with the base file first in every input that
\* contains it and whose other file names all have a parsed index of at
\* least 1.
C19_BaseFirstAmongNumberedChunks ==
    op = "sortChunkFiles" =>
        /\ SortedByIndex
        /\ (/\ HasBase
            /\ \A i \in DOMAIN args.files :
                 args.files[i] # args.baseName
                     => parseChunkIndex(args.files[i], args.baseName) >= 1)
           => ret.sorted[1] = args.baseName

C19_Witness ==
    /\ op = "sortChunkFiles"
    /\ args.baseName = <<"t", ".", "j">>
    /\ args.files = <<<<"t", ".", "j", ".", "1", "0", "0", "0">>,
                      <<"t", ".", "j", ".", "0", "1", "0">>,
                      <<"t", ".", "j">>>>
    /\ ret.sorted = <<<<"t", ".", "j">>,
                      <<"t", ".", "j", ".", "0", "1", "0">>,
                      <<"t", ".", "j", ".", "1", "0", "0", "0">>>>

----------------------------------------------------------------------------
(* findCheckpointUUID (extract.ts) *)

NotFound == [isNull |-> TRUE, uuid |-> ""]
Found(lineUuid) == [isNull |-> FALSE, uuid |-> lineUuid]

\* the inner loop: some block is a tool_result for toolUseId
hasToolResultFor(blocks, toolUseId) ==
    \E i \in DOMAIN blocks :
        blocks[i].type = ContentType.ToolResult /\ blocks[i].tool_use_id = toolUseId

RECURSIVE findCheckpointUUID_AnyType(_, _)
\* mutant: lines of every type are searched
findCheckpointUUID_AnyType(lines, toolUseId) ==
    IF lines = <<>> THEN NotFound
    ELSE LET line == Head(lines) IN
         IF ~HasBlocks(line.message) THEN findCheckpointUUID_AnyType(Tail(lines), toolUseId)
         ELSE IF hasToolResultFor(line.message.content.blocks, toolUseId) THEN Found(line.uuid)
         ELSE findCheckpointUUID_AnyType(Tail(lines), toolUseId)

RECURSIVE findCheckpointUUID(_, _)
findCheckpointUUID(lines, toolUseId) ==
    IF lines = <<>> THEN NotFound
    ELSE LET line == Head(lines) IN
         IF line.type # MessageType.User THEN findCheckpointUUID(Tail(lines), toolUseId)
         ELSE IF ~HasBlocks(line.message) THEN findCheckpointUUID(Tail(lines), toolUseId)
         ELSE IF hasToolResultFor(line.message.content.blocks, toolUseId) THEN Found(line.uuid)
         ELSE findCheckpointUUID(Tail(lines), toolUseId)

\* lines with a tool_result in a user line, in an assistant line, behind a
\* text block, and lines without one
FindLines ==
    {toolResultLine("u1", "tu_123", StringResult(<<"result">>)),
     toolResultLine("u2", "tu_456", StringResult(<<"result">>)),
     TranscriptLine("assistant", "a1",
         Message(ArrayContent(<<ToolResultBlock("tu_123", StringResult(<<"result">>))>>),
                 "", NoUsage)),
     TranscriptLine("user", "u3",
         Message(ArrayContent(<<TextBlock(<<"done">>),
                                ToolResultBlock("tu_123", StringResult(<<"result">>))>>),
                 "", NoUsage)),
     TranscriptLine("assistant", "a2",
         Message(ArrayContent(<<ToolUseBlock("Task", NoInput)>>), "", NoUsage)),
     userLine("u4", <<"hello">>)}

ToolUseIds == {"tu_123", "tu_456", "tu_999"}

InitFind ==
    /\ ConvertIdle
    /\ op = "init"
    /\ args = <<>>
    /\ transcript \in SeqsUpTo(FindLines, MaxLines)
    /\ checkpoint = ""
    /\ loader = <<>>
    /\ ret = <<>>
    /\ ChunkIdle

CallFindCheckpointUUID ==
    /\ op = "init"
    /\ \E toolUseId \in ToolUseIds :
         /\ args' = [toolUseId |-> toolUseId]
         /\ ret' = findCheckpointUUID(transcript, toolUseId)
    /\ op' = "findCheckpointUUID"
    /\ UNCHANGED <<convertVars, transcript, checkpoint, loader, chunkVars>>

NextFind == CallFindCheckpointUUID

SpecFind == InitFind /\ [][NextFind]_vars

\* the line holds a tool_result segment that references the tool use
HoldsResultFor(line, toolUseId) ==
    /\ line.message.content.kind = "array"
    /\ \E i \in DOMAIN line.message.content.blocks :
         /\ line.message.content.blocks[i].type = "tool_result"
         /\ line.message.content.blocks[i].tool_use_id = toolUseId

\* the result is the uuid of the first of the candidate lines, null if none
UuidOfFirst(candidates) ==
    IF candidates = {} THEN ret.isNull
    ELSE /\ ~ret.isNull
         /\ ret.uuid = transcript[CHOOSE i \in candidates : \A j \in candidates : i <= j].uuid

\* C20: findCheckpointUUID returns the uuid of the first line, whatever its
\* type, whose content holds a tool_result segment with the given
\* tool_use_id, and null when no line holds one.
C20_FirstLineOfAnyType ==
    op = "findCheckpointUUID" =>
        UuidOfFirst({i \in DOMAIN transcript : HoldsResultFor(transcript[i], args.toolUseId)})

\* C20 (amended): findCheckpointUUID returns the uuid of the first line of
\* type user whose content holds a tool_result segment with the given
\* tool_use_id, and null when no user line holds one.
C20_FirstUserLine ==
    op = "findCheckpointUUID" =>
        UuidOfFirst({i \in DOMAIN transcript :
                        /\ transcript[i].type = "user"
                        /\ HoldsResultFor(transcript[i], args.toolUseId)})

C20_Witness ==
    /\ op = "findCheckpointUUID"
    /\ Len(transcript) = 4
    /\ transcript[1].uuid = "u2"
    /\ transcript[2].uuid = "a1"
    /\ transcript[3].uuid = "u3"
    /\ transcript[4].uuid = "u1"
    /\ args.toolUseId = "tu_123"
    /\ ret = Found("u3")

----------------------------------------------------------------------------
(* extractSpawnedAgentIds call *)

AgentIdMarker == <<"agentId", ":", " ">>
\* a tool_result part that is not a text part
ImagePart(text) == [type |-> "image", text |-> text]

\* tool results with the marker inside the text, in a text part after a part
\* of another type, followed by a longer run, followed by no run before a
\* second marker, without tool_use_id, naming sub1 again, without marker,
\* and in a line that is not a user line
SpawnLines ==
    {toolResultLine("u1", "tu_1",
         StringResult(<<"Task", " ", "done", ".", "\n">> \o AgentIdMarker \o <<"sub1", "\n">>)),
     toolResultLine("u2", "tu_2",
         ArrayResult(<<ImagePart(AgentIdMarker \o <<"sub1">>),
                       TextPart(AgentIdMarker \o <<"sub2">>),
                       TextPart(<<"ok">>)>>)),
     toolResultLine("u3", "tu_3", StringResult(AgentIdMarker \o <<"sub1", "ok", ".", "done">>)),
     toolResultLine("u4", "tu_4",
         StringResult(AgentIdMarker \o <<"\n">> \o AgentIdMarker \o <<"sub2">>)),
     toolResultLine("u5", "", StringResult(AgentIdMarker \o <<"sub2">>)),
     toolResultLine("u6", "tu_6", StringResult(<<"Task", " ">> \o AgentIdMarker \o <<"sub1">>)),
     toolResultLine("u7", "tu_7", StringResult(<<"agentId", " ", "sub2">>)),
     TranscriptLine("assistant", "a1",
         Message(ArrayContent(<<ToolResultBlock("tu_8", StringResult(AgentIdMarker \o <<"sub2">>))>>),
                 "", NoUsage))}

InitSpawned ==
    /\ ConvertIdle
    /\ op = "init"
    /\ args = <<>>
    /\ transcript \in SeqsUpTo(SpawnLines, MaxLines)
    /\ checkpoint = ""
    /\ loader = <<>>
    /\ ret = <<>>
    /\ ChunkIdle

CallExtractSpawnedAgentIds ==
    /\ op = "init"
    /\ ret' = extractSpawnedAgentIds(transcript)
    /\ op' = "extractSpawnedAgentIds"
    /\ UNCHANGED <<convertVars, transcript, checkpoint, loader, args, chunkVars>>

NextSpawned == CallExtractSpawnedAgentIds

SpecSpawned == InitSpawned /\ [][NextSpawned]_vars

\* the tool_result segments of the user lines, in transcript order
ResultSegments ==
    Flatten([i \in DOMAIN transcript |->
                IF transcript[i].type = "user" /\ transcript[i].message.content.kind = "array"
                THEN SelectSeq(transcript[i].message.content.blocks,
                               LAMBDA b : b.type = "tool_result")
                ELSE <<>>])

\* the text of a segment: the flat string, or the text parts of the list,
\* each followed by a newline
SegmentText(seg) ==
    IF seg.content.kind = "string" THEN seg.content.text
    ELSE IF seg.content.kind = "array"
    THEN Flatten([i \in DOMAIN seg.content.parts |->
                     IF seg.content.parts[i].type = "text" /\ seg.content.parts[i].text # <<>>
                     THEN seg.content.parts[i].text \o <<"\n">> ELSE <<>>])
    ELSE <<>>

MarkerAt(text, i) == i + 2 <= Len(text) /\ SubSeq(text, i, i + 2) = AgentIdMarker

\* the maximal alphanumeric run right after the first marker, <<>> when
\* there is no marker or no run
IdIn(text) ==
    IF \A i \in DOMAIN text : ~MarkerAt(text, i) THEN <<>>
    ELSE LET first == CHOOSE i \in DOMAIN text :
                          MarkerAt(text, i) /\ \A h \in 1..(i - 1) : ~MarkerAt(text, h)
             start == first + 3
             last == CHOOSE e \in (start - 1)..Len(text) :
                         /\ \A k \in start..e : text[k] \in AlnumWords
                         /\ e = Len(text) \/ text[e + 1] \notin AlnumWords
         IN  SubSeq(text, start, last)

\* the segments that name a subagent and carry a tool_use_id
Naming(id) ==
    {i \in DOMAIN ResultSegments :
        /\ IdIn(SegmentText(ResultSegments[i])) = id
        /\ ResultSegments[i].tool_use_id # ""}

\* C21: extractSpawnedAgentIds(lines) maps each discovered subagent id to the
\* tool_use_id of a tool_result segment in whose text it was found (the last
\* such segment), the id being the maximal alphanumeric run right after the
\* first 'agentId: ' marker of the segment's text (flat string, or text
\* parts of a nested list); a segment without marker or with an empty run
\* after it yields no entry, and no key occurs twice.
C21_IdsMappedToOriginatingToolUse ==
    op = "extractSpawnedAgentIds"
        => /\ \A i, j \in DOMAIN ret : i # j => ret[i].key # ret[j].key
           /\ \A i \in DOMAIN ret :
                 /\ ret[i].key # <<>>
                 /\ Naming(ret[i].key) # {}
                 /\ LET n == CHOOSE n \in Naming(ret[i].key) :
                                 \A k \in Naming(ret[i].key) : k <= n
                    IN  ret[i].value = ResultSegments[n].tool_use_id
           /\ \A i \in DOMAIN ResultSegments :
                 LET id == IdIn(SegmentText(ResultSegments[i])) IN
                 IF id = <<>> THEN TRUE
                 ELSE ResultSegments[i].tool_use_id # "" => MapHas(ret, id)

C21_Witness ==
    /\ op = "extractSpawnedAgentIds"
    /\ Len(transcript) = 3
    /\ transcript[1].uuid = "u4"
    /\ transcript[2].uuid = "u1"
    /\ transcript[3].uuid = "u6"
    /\ ret = <<[key |-> <<"sub1">>, value |-> "tu_6"]>>

----------------------------------------------------------------------------
(* extractModifiedFiles (gemini/extract.ts) and the modified-file calls *)

GeminiFileModificationTools == {"write_file", "edit_file", "save_file", "replace"}

\* a GeminiToolCall; "" stands for an argument that is absent or empty
GeminiToolCall(name, file_path, path, filename) ==
    [name |-> name, args |-> [file_path |-> file_path, path |-> path, filename |-> filename]]

RECURSIVE geminiFilesOfToolCalls(_, _)
geminiFilesOfToolCalls(toolCalls, files) ==
    IF toolCalls = <<>> THEN files
    ELSE LET toolCall == Head(toolCalls)
             file == IF toolCall.args.file_path # "" THEN toolCall.args.file_path
                     ELSE IF toolCall.args.path # "" THEN toolCall.args.path
                     ELSE toolCall.args.filename
         IN  IF /\ toolCall.name \in GeminiFileModificationTools
                /\ file # ""
                /\ file \notin Range(files)
             THEN geminiFilesOfToolCalls(Tail(toolCalls), Append(files, file))
             ELSE geminiFilesOfToolCalls(Tail(toolCalls), files)

RECURSIVE geminiFilesOfMessages(_, _)
geminiFilesOfMessages(messages, files) ==
    IF messages = <<>> THEN files
    ELSE LET msg == Head(messages) IN
         IF msg.type = GeminiMessageType.Gemini
         THEN geminiFilesOfMessages(Tail(messages), geminiFilesOfToolCalls(msg.toolCalls, files))
         ELSE geminiFilesOfMessages(Tail(messages), files)

geminiExtractModifiedFiles(messages) == geminiFilesOfMessages(messages, <<>>)

\* assistant lines with allowlisted and other tools, both path fields, no
\* input, empty paths, a text block; a user line with a tool invocation; an
\* assistant line whose content is a string
FileLines ==
    {assistantLine("a1", <<ToolUseBlock("Write", ToolInput("/a.ts", "")),
                           ToolUseBlock("Read", ToolInput("/r.ts", ""))>>),
     assistantLine("a2", <<ToolUseBlock("NotebookEdit", ToolInput("", "/n.ipynb")),
                           ToolUseBlock("Edit", ToolInput("/a.ts", "/x.ipynb"))>>),
     assistantLine("a3", <<ToolUseBlock("mcp__acp__Write", ToolInput("/m.ts", "")),
                           ToolUseBlock("mcp__acp__Edit", NoInput),
                           ToolUseBlock("Write", ToolInput("", ""))>>),
     assistantLine("a4", <<TextBlock(<<"ok">>),
                           ToolUseBlock("mcp__acp__Edit", ToolInput("/b.ts", ""))>>),
     TranscriptLine("user", "u1",
         Message(ArrayContent(<<ToolUseBlock("Write", ToolInput("/u.ts", ""))>>), "", NoUsage)),
     TranscriptLine("assistant", "a5", Message(StringContent(<<"Write">>), "", NoUsage))}

\* gemini messages with allowlisted and other tools, the three path
\* arguments, no path, no tool call; a user message with a tool call
FileMessages ==
    {GeminiMessage("g1", "gemini", <<>>,
         <<GeminiToolCall("write_file", "/a.ts", "/p.ts", ""),
           GeminiToolCall("read_file", "/r.ts", "", "")>>, NoTokens),
     GeminiMessage("g2", "gemini", <<>>,
         <<GeminiToolCall("edit_file", "", "/p.ts", "/f.ts"),
           GeminiToolCall("save_file", "", "", "/f.ts")>>, NoTokens),
     GeminiMessage("g3", "gemini", <<>>,
         <<GeminiToolCall("replace", "/a.ts", "", ""),
           GeminiToolCall("write_file", "", "", "")>>, NoTokens),
     GeminiMessage("g4", "user", <<>>,
         <<GeminiToolCall("write_file", "/u.ts", "", "")>>, NoTokens),
     GeminiMessage("g5", "gemini", <<"done">>, <<>>, NoTokens)}

InitFiles ==
    /\ ConvertIdle
    /\ op = "init"
    /\ args = <<>>
    /\ transcript \in SeqsUpTo(FileLines, MaxLines) \cup SeqsUpTo(FileMessages, MaxMessages)
    /\ checkpoint = ""
    /\ loader = <<>>
    /\ ret = <<>>
    /\ ChunkIdle

CallExtractModifiedFiles ==
    /\ op = "init"
    /\ \A i \in DOMAIN transcript : transcript[i] \in FileLines
    /\ ret' = extractModifiedFiles(transcript)
    /\ op' = "extractModifiedFiles"
    /\ UNCHANGED <<convertVars, transcript, checkpoint, loader, args, chunkVars>>

CallGeminiExtractModifiedFiles ==
    /\ op = "init"
    /\ \A i \in DOMAIN transcript : transcript[i] \in FileMessages
    /\ ret' = geminiExtractModifiedFiles(transcript)
    /\ op' = "gemini.extractModifiedFiles"
    /\ UNCHANGED <<convertVars, transcript, checkpoint, loader, args, chunkVars>>

NextFiles == CallExtractModifiedFiles \/ CallGeminiExtractModifiedFiles

SpecFiles == InitFiles /\ [][NextFiles]_vars

\* the path of a line-delimited invocation: file_path if non-empty, else
\* notebook_path
ClaudePath(block) ==
    IF ~block.input.present THEN ""
    ELSE IF block.input.file_path # "" THEN block.input.file_path
    ELSE block.input.notebook_path

\* the paths of the allowlisted invocations of the assistant lines, in order
ClaudePaths ==
    Flatten([i \in DOMAIN transcript |->
        IF transcript[i].type = "assistant" /\ transcript[i].message.content.kind = "array"
        THEN LET blocks == transcript[i].message.content.blocks IN
             [j \in DOMAIN blocks |->
                 IF /\ blocks[j].type = "tool_use"
                    /\ blocks[j].name \in {"Write", "Edit", "NotebookEdit",
                                           "mcp__acp__Write", "mcp__acp__Edit"}
                 THEN ClaudePath(blocks[j]) ELSE ""]
        ELSE <<>>])

\* the path of a message-array invocation: the first non-empty of
\* file_path, path, filename
GeminiPath(toolCall) ==
    LET candidates == <<toolCall.args.file_path, toolCall.args.path, toolCall.args.filename>> IN
    IF \A k \in 1..3 : candidates[k] = "" THEN ""
    ELSE candidates[CHOOSE k \in 1..3 :
                        candidates[k] # "" /\ \A h \in 1..(k - 1) : candidates[h] = ""]

\* the paths of the allowlisted invocations of the gemini messages, in order
GeminiPaths ==
    Flatten([i \in DOMAIN transcript |->
        IF transcript[i].type = "gemini"
        THEN [j \in DOMAIN transcript[i].toolCalls |->
                 IF transcript[i].toolCalls[j].name
                        \in {"write_file", "edit_file", "save_file", "replace"}
                 THEN GeminiPath(transcript[i].toolCalls[j]) ELSE ""]
        ELSE <<>>])

NonEmptyPaths(paths) == SelectSeq(paths, LAMBDA file : file # "")

\* C22: modified-file extraction returns, without duplicates and in
\* first-occurrence order, exactly the paths of the allowlisted tool
\* invocations of assistant lines (file_path if non-empty, else
\* notebook_path) or of gemini messages (first non-empty of file_path, path,
\* filename); other tools, other entry types and invocations without a
\* non-empty path contribute nothing.
C22_PathsOfAllowlistedInvocations ==
    /\ op = "extractModifiedFiles"
          => /\ ret = FirstOccurrences(NonEmptyPaths(ClaudePaths))
             /\ \A i, j \in DOMAIN ret : i # j => ret[i] # ret[j]
    /\ op = "gemini.extractModifiedFiles"
          => /\ ret = FirstOccurrences(NonEmptyPaths(GeminiPaths))
             /\ \A i, j \in DOMAIN ret : i # j => ret[i] # ret[j]

C22_Witness ==
    /\ op = "extractModifiedFiles"
    /\ Len(transcript) = 4
    /\ transcript[1].uuid = "u1"
    /\ transcript[2].uuid = "a2"
    /\ transcript[3].uuid = "a1"
    /\ transcript[4].uuid = "a3"
    /\ ret = <<"/n.ipynb", "/a.ts", "/m.ts">>

----------------------------------------------------------------------------
(* deduplicateStrings calls *)

ItemStrings == {"a", "b", "c"}

InitDedup ==
    /\ ConvertIdle
    /\ op = "init"
    /\ \E items \in SeqsUpTo(ItemStrings, MaxItems) : args = [items |-> items, once |-> <<>>]
    /\ transcript = <<>>
    /\ checkpoint = ""
    /\ loader = <<>>
    /\ ret = <<>>
    /\ ChunkIdle

CallDeduplicateStrings ==
    /\ op = "init"
    /\ ret' = deduplicateStrings(args.items)
    /\ op' = "deduplicateStrings"
    /\ UNCHANGED <<convertVars, transcript, checkpoint, loader, args, chunkVars>>

\* deduplicateStrings applied to its own output
CallDeduplicateStringsAgain ==
    /\ op = "deduplicateStrings"
    /\ args' = [args EXCEPT !.once = ret]
    /\ ret' = deduplicateStrings(ret)
    /\ op' = "deduplicateStrings.again"
    /\ UNCHANGED <<convertVars, transcript, checkpoint, loader, chunkVars>>

NextDedup == CallDeduplicateStrings \/ CallDeduplicateStringsAgain

SpecDedup == InitDedup /\ [][NextDedup]_vars

\* the positions of items that hold the first occurrence of their string
FirstPositions(items) == {i \in DOMAIN items : \A h \in 1..(i - 1) : items[h] # items[i]}

\* C23: deduplicateStrings(items) is the subsequence of items that keeps
\* exactly the first occurrence of each distinct string (same set of
\* elements, no duplicates, first-seen order), and applying it to its own
\* output returns that output.
C23_FirstOccurrencesAndIdempotent ==
    /\ op = "deduplicateStrings"
          => /\ Range(ret) = Range(args.items)
             /\ \A i, j \in DOMAIN ret : i # j => ret[i] # ret[j]
             /\ Len(ret) = Cardinality(FirstPositions(args.items))
             /\ \A i \in DOMAIN ret :
                   \E p \in FirstPositions(args.items) :
                       /\ args.items[p] = ret[i]
                       /\ Cardinality({h \in FirstPositions(args.items) : h < p}) = i - 1
    /\ op = "deduplicateStrings.again" => ret = args.once

C23_Witness ==
    /\ op = "deduplicateStrings.again"
    /\ args.items = <<"b", "a", "b", "a">>
    /\ args.once = <<"b", "a">>
    /\ ret = <<"b", "a">>

----------------------------------------------------------------------------
(* ACP event -> AgentSession converter (acp/converter.ts) *)

\* Event and entry texts are strings; a text the converter builds (a joined
\* tool output, a content with its prefix) is the sequence of its pieces.
\* "" stands for an absent toolCallId, title, status or plan.  Timestamps
\* are left out: no operation reads them back.

EntryType == [User |-> "user", Assistant |-> "assistant", Tool |-> "tool", System |-> "system"]

\* event.content: absent, one content block, or (tool_call_update) an array
NoEventContent == [kind |-> "absent", type |-> "", text |-> "", blocks |-> <<>>]
EventContent(type, text) == [kind |-> "object", type |-> type, text |-> text, blocks |-> <<>>]
EventBlocks(blocks) == [kind |-> "array", type |-> "", text |-> "", blocks |-> blocks]
\* an element of the array; "" stands for a text / diff that is absent
EventBlock(type, text, diff) == [type |-> type, text |-> text, diff |-> diff]

\* event.rawInput: absent, or an object ("" = a path that is absent)
NoRawInput == [kind |-> "absent", file_path |-> "", notebook_path |-> ""]
RawInput(file_path, notebook_path) ==
    [kind |-> "object", file_path |-> file_path, notebook_path |-> notebook_path]

ACPSessionEvent(sessionUpdate, evContent, toolCallId, title, rawInput, status, plan) ==
    [sessionUpdate |-> sessionUpdate, content |-> evContent, toolCallId |-> toolCallId,
     title |-> title, rawInput |-> rawInput, status |-> status, plan |-> plan]

\* uuids: a toolCallId as given, `acp_<time>_<counter>`, `tc_<time>_<random>`
GivenId(id) == [prefix |-> "", id |-> id, n |-> 0]
GeneratedId(prefix, n) == [prefix |-> prefix, id |-> "", n |-> n]

NoOutput == [present |-> FALSE, text |-> <<>>]
Output(text) == [present |-> TRUE, text |-> text]
NoFiles == [present |-> FALSE, files |-> <<>>]
Files(files) == [present |-> TRUE, files |-> files]

SessionEntry(entryUuid, type, entryContent, toolName, toolInput, toolOutput, filesAffected) ==
    [uuid |-> entryUuid, type |-> type, content |-> entryContent, toolName |-> toolName,
     toolInput |-> toolInput, toolOutput |-> toolOutput, filesAffected |-> filesAffected]

\* "" stands for null
extractTextContent(evContent) ==
    IF evContent.kind # "object" THEN ""
    ELSE IF evContent.type = "text" THEN evContent.text
    ELSE ""

RECURSIVE partsOfBlocks(_)
\* the for loop of extractContentBlocks
partsOfBlocks(blocks) ==
    IF blocks = <<>> THEN <<>>
    ELSE LET block == Head(blocks) IN
         IF block.type = "text" /\ block.text # "" THEN <<<<block.text>>>> \o partsOfBlocks(Tail(blocks))
         ELSE IF block.type = "diff" /\ block.diff # ""
         THEN <<<<block.diff>>>> \o partsOfBlocks(Tail(blocks))
         ELSE partsOfBlocks(Tail(blocks))

extractContentBlocks(blocks) == Join(partsOfBlocks(blocks), <<"\n">>)

FILE_TOOLS ==
    {"Write", "Edit", "NotebookEdit", "write_file", "edit_file",
     "mcp__acp__Write", "mcp__acp__Edit"}

extractFilesFromToolInput(toolName, rawInput) ==
    IF toolName \notin FILE_TOOLS THEN NoFiles
    ELSE IF rawInput.kind # "object" THEN NoFiles
    ELSE LET filePath == IF rawInput.file_path # "" THEN rawInput.file_path
                         ELSE rawInput.notebook_path
         IN  IF filePath # "" THEN Files(<<filePath>>) ELSE NoFiles

\* what convertACPEventToEntry returns and leaves behind: the entry or null,
\* the Map, the entries the Map refers to, the counter
NoEntry == SessionEntry(GivenId(""), "", <<>>, "", NoRawInput, NoOutput, NoFiles)
Converted(produced, entry, map, heap, count) ==
    [produced |-> produced, entry |-> entry, toolCallEntries |-> map,
     entries |-> heap, counter |-> count]

\* mutant: a failed update replaces the output the entry already has
convertACPEventToEntry_FailedOverwrites(event, map, heap, count) ==
    LET updateType == event.sessionUpdate
        null == Converted(FALSE, NoEntry, map, heap, count)
    IN  CASE updateType \in {"agent_message_chunk", "agent_thought_chunk"} ->
               LET text == extractTextContent(event.content) IN
               IF text = "" THEN null
               ELSE Converted(TRUE,
                        SessionEntry(GeneratedId("acp", count), EntryType.Assistant, <<text>>,
                                     "", NoRawInput, NoOutput, NoFiles),
                        map, heap, count + 1)
          [] updateType = "user_message_chunk" ->
               LET text == extractTextContent(event.content) IN
               IF text = "" THEN null
               ELSE Converted(TRUE,
                        SessionEntry(GeneratedId("acp", count), EntryType.User, <<text>>,
                                     "", NoRawInput, NoOutput, NoFiles),
                        map, heap, count + 1)
          [] updateType = "tool_call" ->
               LET toolCallId == IF event.toolCallId # "" THEN GivenId(event.toolCallId)
                                 ELSE GeneratedId("tc", Len(heap) + 1)
                   toolName == IF event.title # "" THEN event.title ELSE "unknown"
                   entry == SessionEntry(toolCallId, EntryType.Tool,
                                         <<"Tool call: ", toolName>>, toolName, event.rawInput,
                                         NoOutput,
                                         extractFilesFromToolInput(toolName, event.rawInput))
               IN  Converted(TRUE, entry, MapSet(map, toolCallId, Len(heap) + 1), heap, count)
          [] updateType = "tool_call_update" ->
               IF event.toolCallId = "" THEN null
               ELSE IF ~MapHas(map, GivenId(event.toolCallId)) THEN null
               ELSE LET existing == MapGet(map, GivenId(event.toolCallId))
                        afterContent ==
                            IF event.content.kind = "array"
                            THEN Output(extractContentBlocks(event.content.blocks))
                            ELSE heap[existing].toolOutput
                        afterStatus ==
                            IF event.status = "failed"
                            THEN Output(<<"Tool call failed">>)
                            ELSE afterContent
                    IN  Converted(FALSE, NoEntry, map,
                                  [heap EXCEPT ![existing].toolOutput = afterStatus], count)
          [] updateType = "plan" ->
               Converted(TRUE,
                   SessionEntry(GeneratedId("acp", count), EntryType.Assistant,
                                <<"[Plan] ", event.plan>>, "", NoRawInput, NoOutput, NoFiles),
                   map, heap, count + 1)
          [] OTHER -> null

\* heap holds the entries created so far: the Map's values are references
\* to them, written here as their positions, and the entry a tool_call
\* returns is the one the caller pushes next
convertACPEventToEntry(event, map, heap, count) ==
    LET updateType == event.sessionUpdate
        null == Converted(FALSE, NoEntry, map, heap, count)
    IN  CASE updateType \in {"agent_message_chunk", "agent_thought_chunk"} ->
               LET text == extractTextContent(event.content) IN
               IF text = "" THEN null
               ELSE Converted(TRUE,
                        SessionEntry(GeneratedId("acp", count), EntryType.Assistant, <<text>>,
                                     "", NoRawInput, NoOutput, NoFiles),
                        map, heap, count + 1)
          [] updateType = "user_message_chunk" ->
               LET text == extractTextContent(event.content) IN
               IF text = "" THEN null
               ELSE Converted(TRUE,
                        SessionEntry(GeneratedId("acp", count), EntryType.User, <<text>>,
                                     "", NoRawInput, NoOutput, NoFiles),
                        map, heap, count + 1)
          [] updateType = "tool_call" ->
               LET toolCallId == IF event.toolCallId # "" THEN GivenId(event.toolCallId)
                                 ELSE GeneratedId("tc", Len(heap) + 1)
                   toolName == IF event.title # "" THEN event.title ELSE "unknown"
                   entry == SessionEntry(toolCallId, EntryType.Tool,
                                         <<"Tool call: ", toolName>>, toolName, event.rawInput,
                                         NoOutput,
                                         extractFilesFromToolInput(toolName, event.rawInput))
               IN  Converted(TRUE, entry, MapSet(map, toolCallId, Len(heap) + 1), heap, count)
          [] updateType = "tool_call_update" ->
               IF event.toolCallId = "" THEN null
               ELSE IF ~MapHas(map, GivenId(event.toolCallId)) THEN null
               ELSE LET existing == MapGet(map, GivenId(event.toolCallId))
                        afterContent ==
                            IF event.content.kind = "array"
                            THEN Output(extractContentBlocks(event.content.blocks))
                            ELSE heap[existing].toolOutput
                        afterStatus ==
                            IF event.status = "failed" /\ ~afterContent.present
                            THEN Output(<<"Tool call failed">>)
                            ELSE afterContent
                    IN  Converted(FALSE, NoEntry, map,
                                  [heap EXCEPT ![existing].toolOutput = afterStatus], count)
          [] updateType = "plan" ->
               Converted(TRUE,
                   SessionEntry(GeneratedId("acp", count), EntryType.Assistant,
                                <<"[Plan] ", event.plan>>, "", NoRawInput, NoOutput, NoFiles),
                   map, heap, count + 1)
          [] OTHER -> null

\* the events of a session: message, thought and user chunks with and
\* without text, tool calls with and without toolCallId, updates that
\* complete or fail a call with and without content, a plan, an event of
\* another type
ACPEvents ==
    {ACPSessionEvent("agent_message_chunk", EventContent("text", "hi"), "", "", NoRawInput, "", ""),
     ACPSessionEvent("agent_thought_chunk", EventContent("text", ""), "", "", NoRawInput, "", ""),
     ACPSessionEvent("agent_thought_chunk", EventContent("text", "hm"), "", "", NoRawInput, "", ""),
     ACPSessionEvent("user_message_chunk", EventContent("image", ""), "", "", NoRawInput, "", ""),
     ACPSessionEvent("user_message_chunk", EventContent("text", "go"), "", "", NoRawInput, "", ""),
     ACPSessionEvent("tool_call", NoEventContent, "tc1", "Write", RawInput("/a.ts", ""), "", ""),
     ACPSessionEvent("tool_call", NoEventContent, "tc2", "bash", RawInput("", ""), "", ""),
     ACPSessionEvent("tool_call", NoEventContent, "", "", NoRawInput, "", ""),
     ACPSessionEvent("tool_call_update",
         EventBlocks(<<EventBlock("text", "out", ""), EventBlock("image", "", ""),
                       EventBlock("diff", "", "d")>>),
         "tc1", "", NoRawInput, "completed", ""),
     ACPSessionEvent("tool_call_update", NoEventContent, "tc1", "", NoRawInput, "failed", ""),
     ACPSessionEvent("tool_call_update", EventBlocks(<<>>), "tc1", "", NoRawInput, "failed", ""),
     ACPSessionEvent("tool_call_update", EventBlocks(<<EventBlock("text", "out", "")>>),
         "tc2", "", NoRawInput, "completed", ""),
     ACPSessionEvent("tool_call_update", EventBlocks(<<EventBlock("text", "out", "")>>),
         "", "", NoRawInput, "failed", ""),
     ACPSessionEvent("plan", NoEventContent, "", "", NoRawInput, "", "steps"),
     ACPSessionEvent("current_mode_update", NoEventContent, "", "", NoRawInput, "", "")}

RECURSIVE pushNewFiles(_, _)
\* if (!modifiedFiles.includes(file)) modifiedFiles.push(file)
pushNewFiles(files, into) ==
    IF files = <<>> THEN into
    ELSE IF Head(files) \in Range(into) THEN pushNewFiles(Tail(files), into)
    ELSE pushNewFiles(Tail(files), Append(into, Head(files)))

InitConvert ==
    /\ op = "init"
    /\ ChunkIdle
    /\ ExtractIdle
    /\ ConvertIdle

\* one iteration of the loop of convertACPEventsToSession
ConvertEvent(event) ==
    /\ Len(events) < MaxEvents
    /\ LET converted == convertACPEventToEntry(event, toolCallEntries, entries, counter) IN
         /\ entries' = IF converted.produced THEN Append(converted.entries, converted.entry)
                       ELSE converted.entries
         /\ toolCallEntries' = converted.toolCallEntries
         /\ counter' = converted.counter
         /\ modifiedFiles' =
                IF converted.produced /\ converted.entry.filesAffected.present
                THEN pushNewFiles(converted.entry.filesAffected.files, modifiedFiles)
                ELSE modifiedFiles
    /\ events' = Append(events, event)
    /\ op' = "convertACPEventsToSession"
    /\ UNCHANGED <<chunkVars, extractVars>>

NextConvert == \E event \in ACPEvents : ConvertEvent(event)

SpecConvert == InitConvert /\ [][NextConvert]_vars

\* the events that produce an entry: message, thought and user chunks that
\* carry a text, tool calls, plans
Producing(event) ==
    \/ /\ event.sessionUpdate \in {"agent_message_chunk", "agent_thought_chunk",
                                   "user_message_chunk"}
       /\ event.content.kind = "object"
       /\ event.content.type = "text"
       /\ event.content.text # ""
    \/ event.sessionUpdate \in {"tool_call", "plan"}

\* the position in events of the event that produced the k-th entry
ProducerOf(k) ==
    CHOOSE p \in DOMAIN events :
        /\ Producing(events[p])
        /\ Cardinality({h \in 1..p : Producing(events[h])}) = k

\* entry is what event produces, its output left aside
ProducedBy(entry, event) ==
    CASE event.sessionUpdate = "tool_call" ->
           /\ entry.type = "tool"
           /\ event.toolCallId # "" => entry.uuid = GivenId(event.toolCallId)
           /\ entry.toolName = (IF event.title # "" THEN event.title ELSE "unknown")
      [] event.sessionUpdate = "plan" ->
           entry.type = "assistant" /\ entry.content = <<"[Plan] ", event.plan>>
      [] event.sessionUpdate = "user_message_chunk" ->
           entry.type = "user" /\ entry.content = <<event.content.text>>
      [] OTHER ->
           entry.type = "assistant" /\ entry.content = <<event.content.text>>

\* the positions of the updates that reach the tool_call at position p: the
\* later updates with its toolCallId, up to the next tool_call with that id
UpdatesOf(p) ==
    {q \in (p + 1)..Len(events) :
        /\ events[q].sessionUpdate = "tool_call_update"
        /\ events[q].toolCallId # ""
        /\ events[q].toolCallId = events[p].toolCallId
        /\ \A h \in (p + 1)..(q - 1) :
              ~(events[h].sessionUpdate = "tool_call"
                  /\ events[h].toolCallId = events[p].toolCallId)}

\* the output after the updates of p that come before position q
OutputBefore(p, q) ==
    LET F[n \in p..(q - 1)] ==
            IF n = p THEN NoOutput
            ELSE IF n \notin UpdatesOf(p) THEN F[n - 1]
            ELSE IF events[n].content.kind = "array"
            THEN Output(extractContentBlocks(events[n].content.blocks))
            ELSE IF events[n].status = "failed" /\ ~F[n - 1].present
            THEN Output(<<"Tool call failed">>)
            ELSE F[n - 1]
    IN  F[q - 1]

\* C24: a tool_call_update never adds an entry: session.entries holds one
\* entry per entry-producing event (chunks with text, tool_call, plan), in
\* event order; an update changes only the toolOutput of the entry of the
\* preceding tool_call with its toolCallId, and nothing when it has no
\* toolCallId or no such tool_call came before; a 'failed' update sets
\* 'Tool call failed' only when the entry has no output yet.
C24_UpdatesNeverAddEntries ==
    op = "convertACPEventsToSession"
        => /\ Len(entries) = Cardinality({p \in DOMAIN events : Producing(events[p])})
           /\ \A k \in DOMAIN entries :
                 /\ ProducedBy(entries[k], events[ProducerOf(k)])
                 /\ entries[k].toolOutput =
                        IF entries[k].type = "tool"
                        THEN OutputBefore(ProducerOf(k), Len(events) + 1)
                        ELSE NoOutput

C24_Witness ==
    /\ op = "convertACPEventsToSession"
    /\ Len(events) = 3
    /\ events[1].sessionUpdate = "tool_call" /\ events[1].toolCallId = "tc1"
    /\ events[2].sessionUpdate = "tool_call_update" /\ events[2].toolCallId = "tc2"
    /\ events[3].sessionUpdate = "tool_call_update" /\ events[3].toolCallId = "tc1"
    /\ events[3].status = "failed" /\ events[3].content.kind = "absent"
    /\ Len(entries) = 1
    /\ entries[1].toolOutput = Output(<<"Tool call failed">>)

----------------------------------------------------------------------------
(* Chunk boundaries *)

\* C25: whenever chunkJSONL returns, every chunk is the newline-join of a
\* run of whole lines of content and the runs partition the lines in order
\* (the lines of the chunks, one chunk after the other, are the lines of
\* content); every chunk is at most maxSize long; a chunk is sealed only
\* where the next line with its separator, appended to the chunk and its
\* separator, would exceed maxSize.
C25_ChunksAreGreedyRunsOfLines ==
    (op = "chunkJSONL" /\ ~chunked.threw)
        => /\ LinesOfChunks(chunked.chunks) = LinesOf(content)
           /\ \A i \in DOMAIN chunked.chunks :
                 /\ chunked.chunks[i] = Join(Split(chunked.chunks[i]), <<NL>>)
                 /\ Length(chunked.chunks[i]) <= maxSize
           /\ \A i \in 1..(Len(chunked.chunks) - 1) :
                 LET nextLine == Split(chunked.chunks[i + 1])[1] IN
                 Length(chunked.chunks[i]) + 1 + Length(nextLine) + 1 > maxSize

C25_Witness ==
    /\ op = "chunkJSONL"
    /\ ~chunked.threw
    /\ maxSize = 4
    /\ content = <<ChA, NL, NL, NL, ChB>>
    /\ chunked.chunks = <<<<ChA, NL, NL>>, <<ChB>>>>

\* the messages of the original document
OriginalMessages == JSONParse(content).messages

\* the size the accumulator had when the i-th chunk was pushed
TrackedSize(i) == currentSizeAtPush(OriginalMessages, 1, <<>>, 0, WrapperSize, maxSize)[i]

EachMessageFitsAlone ==
    \A i \in DOMAIN OriginalMessages :
        Length(JSONStringify(<<OriginalMessages[i]>>)) <= maxSize

\* C26: when chunkGeminiJSON splits a document (content longer than
\* maxSize), every chunk is a wrapper document whose message list is a
\* non-empty run of the original messages, the runs partition the original
\* list in order, at least one chunk is returned, the size the accumulator
\* tracks equals the chunk's serialized length, and every chunk is at most
\* maxSize long whenever each single message fits in a wrapper of its own.
C26_ChunksAreRunsOfTrackedSize ==
    (op = "chunkGeminiJSON" /\ Length(content) > maxSize /\ ~chunked.threw)
        => /\ Len(chunked.chunks) >= 1
           /\ \A i \in DOMAIN chunked.chunks :
                 /\ JSONParse(chunked.chunks[i]).ok
                 /\ JSONParse(chunked.chunks[i]).messages # <<>>
                 /\ TrackedSize(i) = Length(chunked.chunks[i])
           /\ allMessagesOf(chunked.chunks) = OriginalMessages
           /\ EachMessageFitsAlone
                 => \A i \in DOMAIN chunked.chunks : Length(chunked.chunks[i]) <= maxSize

----------------------------------------------------------------------------
(* reassembleTranscript (chunking.ts) and the auto-detecting calls *)

\* hint "" stands for undefined
reassembleTranscript(chunks, hint) ==
    IF Len(chunks) = 0 THEN Value(<<>>)
    ELSE IF Len(chunks) = 1 THEN Value(chunks[1])
    ELSE LET detectedType == IF hint # "" THEN hint ELSE detectAgentTypeFromContent(chunks[1]) IN
         IF detectedType = "Gemini CLI" THEN reassembleGeminiJSON(chunks)
         ELSE Value(reassembleJSONL(chunks))

\* the lines of a line-delimited content: empty, text, a record, and a
\* record that is an object with a messages array
AutoLines == {<<>>, <<ChA>>, <<Rec("sa1")>>, JSONStringify(<<"m1">>)}

AutoContents ==
    {Join(lines, <<NL>>) : lines \in SeqsUpTo(AutoLines, MaxAutoLines)}
    \cup {JSONStringify(ms) : ms \in SeqsUpTo(MessageValues, MaxMessages)}

InitAuto ==
    /\ op = "init"
    /\ content \in AutoContents
    /\ maxSize = 0
    /\ agentType = ""
    /\ chunked = NoOutcome
    /\ joined = Value(<<>>)
    /\ ExtractIdle
    /\ ConvertIdle

CallReassembleTranscript ==
    /\ op = "chunkTranscript"
    /\ ~chunked.threw
    /\ \E hint \in AgentTypes :
         /\ args' = [agentType |-> hint]
         /\ joined' = reassembleTranscript(chunked.chunks, hint)
    /\ op' = "reassembleTranscript"
    /\ UNCHANGED <<convertVars, content, maxSize, agentType, chunked,
                   transcript, checkpoint, loader, ret>>

NextAuto == CallChunkTranscript \/ CallReassembleTranscript

SpecAuto == InitAuto /\ [][NextAuto]_vars

\* C27: with no format hint on either call, for every content that
\* detectAgentTypeFromContent does not classify as message-array and every
\* maxSize for which chunkTranscript returns, reassembleTranscript(chunks)
\* returns content exactly, and the format detected from the first chunk at
\* reassembly is the line-delimited default used at chunking.
C27_AutoDetectRoundTrip ==
    (/\ op = "reassembleTranscript"
     /\ agentType = ""
     /\ args.agentType = ""
     /\ detectAgentTypeFromContent(content) # "Gemini CLI")
        => /\ ~joined.threw
           /\ joined.value = content
           /\ detectAgentTypeFromContent(chunked.chunks[1]) # "Gemini CLI"

----------------------------------------------------------------------------
(* sliceFromLine (parse.ts) and the slicing calls *)

\* the loop returns at i = startLine, where lineCount = i
sliceFromLine(c, startLine) ==
    IF c = <<>> \/ startLine <= 0 THEN c
    ELSE LET allLines == Split(c) IN
         IF startLine < Len(allLines)
         THEN Join(SubSeq(allLines, startLine + 1, Len(allLines)), <<NL>>)
         ELSE <<>>

SliceStartLines == (-1)..MaxLines

CallSliceFromLine ==
    /\ op = "init"
    /\ \E startLine \in SliceStartLines :
         /\ args' = [startLine |-> startLine]
         /\ ret' = [sliced |-> sliceFromLine(content, startLine)]
    /\ op' = "sliceFromLine"
    /\ UNCHANGED <<convertVars, chunkVars, transcript, checkpoint, loader>>

\* parseFromString applied to the slice
CallParseFromStringOfSlice ==
    /\ op = "sliceFromLine"
    /\ ret' = [sliced |-> ret.sliced, lines |-> parseFromString(ret.sliced)]
    /\ op' = "sliceFromLine.parseFromString"
    /\ UNCHANGED <<convertVars, chunkVars, transcript, checkpoint, loader, args>>

NextSlice == CallParseFromStringAtLine \/ CallSliceFromLine \/ CallParseFromStringOfSlice

SpecSlice == InitParse /\ [][NextSlice]_vars

\* C28: the line-offset variant and the raw slice use the same line
\* indexing: for every content, blank lines included, and every n >= 0,
\* parseFromStringAtLine(content, n).lines equals
\* parseFromString(sliceFromLine(content, n)); sliceFromLine returns content
\* unchanged for n <= 0 and the empty string when n is at or past the
\* number of lines.
C28_SliceAndOffsetIndexAlike ==
    /\ op = "sliceFromLine"
          => /\ args.startLine <= 0 => ret.sliced = content
             /\ args.startLine >= Len(Split(content)) => ret.sliced = <<>>
    /\ (op = "sliceFromLine.parseFromString" /\ args.startLine >= 0)
          => ret.lines = parseFromStringAtLine(content, args.startLine).lines

----------------------------------------------------------------------------
(* Incremental reading of a growing transcript (README, parse.ts) *)

\* what the agent appends to its transcript file: newlines, blanks, text, a
\* whole record, and the two halves of an object written in two steps
WrittenTokens == {NL, WS, ChA, Rec("sa1"), OPEN, CLOSE}

\* content is the snapshot of the file, args.lastLineCount the caller's
\* counter, transcript the records the caller has received so far
InitIncremental ==
    /\ op = "init"
    /\ content = <<>>
    /\ maxSize = 0
    /\ agentType = ""
    /\ chunked = NoOutcome
    /\ joined = Value(<<>>)
    /\ transcript = <<>>
    /\ checkpoint = ""
    /\ loader = <<>>
    /\ args = [lastLineCount |-> 0]
    /\ ret = [lines |-> <<>>, totalLines |-> 0]
    /\ ConvertIdle

\* the file grows: every snapshot is a prefix of the next
WriteTranscript ==
    /\ Len(content) < MaxContentLen
    /\ \E tok \in WrittenTokens : content' = Append(content, tok)
    /\ op' = "write"
    /\ UNCHANGED <<convertVars, maxSize, agentType, chunked, joined, extractVars>>

\* onTranscriptUpdate(content) of the README
OnTranscriptUpdate ==
    /\ op = "write"
    /\ LET parsed == parseFromStringAtLine(content, args.lastLineCount) IN
         /\ ret' = parsed
         /\ args' = [lastLineCount |-> parsed.totalLines]
         /\ transcript' = transcript \o parsed.lines
    /\ op' = "onTranscriptUpdate"
    /\ UNCHANGED <<convertVars, chunkVars, checkpoint, loader>>

NextIncremental == WriteTranscript \/ OnTranscriptUpdate

SpecIncremental == InitIncremental /\ [][NextIncremental]_vars

\* C29: incremental reading loses and duplicates nothing: over snapshots
\* each of which is a prefix of the next (a snapshot may end in the middle
\* of a line), a caller that starts with last = 0, calls
\* parseFromStringAtLine(snapshot, last) and sets last := totalLines has
\* received, after each call, exactly the records of
\* parseFromString(snapshot), each once and in order.
C29_IncrementalReadingIsExact ==
    op = "onTranscriptUpdate" => transcript = parseFromString(content)

----------------------------------------------------------------------------
(* extractLastUserPrompt (extract.ts) and the extraction functions applied
   to what parseFromString returns *)

RECURSIVE extractLastUserPrompt(_)
\* the loop runs from the last line backwards
extractLastUserPrompt(lines) ==
    IF lines = <<>> THEN <<>>
    ELSE LET line == lines[Len(lines)] IN
         IF line.type = MessageType.User /\ extractUserContent(line.message) # <<>>
         THEN extractUserContent(line.message)
         ELSE extractLastUserPrompt(SubSeq(lines, 1, Len(lines) - 1))

\* the texts of the lines 'null' and '5'
NullToken == Tok("null", "null", 4)
NumberToken == Tok("num", "5", 1)

\* `line.type` is read of every line: a null line raises the TypeError
readsNullLine(lines) == \E i \in DOMAIN lines : IsNull(lines[i])

\* `block.type` is read of every element of the content array of the
\* lines of the given type
readsNullBlock(lines, type) ==
    \E i \in DOMAIN lines :
        /\ lines[i].type = type
        /\ HasBlocks(lines[i].message)
        /\ \E j \in DOMAIN lines[i].message.content.blocks :
              IsNull(lines[i].message.content.blocks[j])

\* the backward loop of extractLastUserPrompt returns at the last prompt
isPrompt(line) == line.type = MessageType.User /\ extractUserContent(line.message) # <<>>
lastPromptReadsNullLine(lines) ==
    \E i \in DOMAIN lines :
        IsNull(lines[i]) /\ \A h \in (i + 1)..Len(lines) : ~isPrompt(lines[h])

\* extractAllPromptResponses reads every line.type, then passes the lines
\* from the first prompt on to extractAssistantResponses / extractModifiedFiles
promptResponsesReadNull(lines) ==
    \/ readsNullLine(lines)
    \/ \E p \in DOMAIN lines :
          isPrompt(lines[p]) /\ readsNullBlock(SubSeq(lines, p, Len(lines)), MessageType.Assistant)

\* findCheckpointUUID returns at the first matching block: what it reads
\* before that
checkpointThrowsAt(line, toolUseId) ==
    \/ IsNull(line)
    \/ /\ line.type = MessageType.User
       /\ HasBlocks(line.message)
       /\ LET blocks == line.message.content.blocks IN
          \E j \in DOMAIN blocks :
              /\ IsNull(blocks[j])
              /\ \A h \in 1..(j - 1) :
                    ~(blocks[h].type = ContentType.ToolResult
                        /\ blocks[h].tool_use_id = toolUseId)
checkpointReturnsAt(line, toolUseId) ==
    /\ ~checkpointThrowsAt(line, toolUseId)
    /\ line.type = MessageType.User
    /\ HasBlocks(line.message)
    /\ hasToolResultFor(line.message.content.blocks, toolUseId)
checkpointReadsNull(lines, toolUseId) ==
    \E i \in DOMAIN lines :
        /\ checkpointThrowsAt(lines[i], toolUseId)
        /\ \A h \in 1..(i - 1) : ~checkpointReturnsAt(lines[h], toolUseId)

\* truncateAtUUID / filterAfterUUID return at once for an empty uuid, and
\* else read lines[i].uuid up to the first match
uuidSearchReadsNull(lines, lineUuid) ==
    /\ lineUuid # ""
    /\ \E i \in DOMAIN lines :
          IsNull(lines[i]) /\ \A h \in 1..(i - 1) : lines[h].uuid # lineUuid

\* what a call does: it raises the TypeError, or returns its value
Outcome(name, throws, value) ==
    IF throws THEN [threw |-> TRUE]
    ELSE [f \in {"threw", name} |-> IF f = "threw" THEN FALSE ELSE value]

\* the lines of a transcript file: empty, null, a number, an object without
\* fields, a prompt, a record whose content array holds null
RobustLines ==
    {<<>>, <<NullToken>>, <<NumberToken>>, <<OPEN, CLOSE>>,
     <<Rec("up")>>, <<Rec("nb")>>, <<Rec("ur")>>}

RobustContents == {Join(lines, <<NL>>) : lines \in SeqsUpTo(RobustLines, MaxRobustLines)}

InitRobust ==
    /\ op = "init"
    /\ content \in RobustContents
    /\ maxSize = 0
    /\ agentType = ""
    /\ chunked = NoOutcome
    /\ joined = Value(<<>>)
    /\ ExtractIdle
    /\ ConvertIdle

\* each extraction function applied to the lines parseFromString returned
ApplyExtractModifiedFiles ==
    /\ op = "parseFromString"
    /\ transcript' = ret
    /\ args' = <<>>
    /\ ret' = Outcome("extractModifiedFiles",
           readsNullLine(ret) \/ readsNullBlock(ret, MessageType.Assistant),
           extractModifiedFiles(ret))
    /\ op' = "extractModifiedFiles"
    /\ UNCHANGED <<convertVars, chunkVars, checkpoint, loader>>

ApplyExtractLastUserPrompt ==
    /\ op = "parseFromString"
    /\ transcript' = ret
    /\ args' = <<>>
    /\ ret' = Outcome("extractLastUserPrompt",
           lastPromptReadsNullLine(ret),
           extractLastUserPrompt(ret))
    /\ op' = "extractLastUserPrompt"
    /\ UNCHANGED <<convertVars, chunkVars, checkpoint, loader>>

ApplyExtractAllUserPrompts ==
    /\ op = "parseFromString"
    /\ transcript' = ret
    /\ args' = <<>>
    /\ ret' = Outcome("extractAllUserPrompts",
           readsNullLine(ret),
           extractAllUserPrompts(ret))
    /\ op' = "extractAllUserPrompts"
    /\ UNCHANGED <<convertVars, chunkVars, checkpoint, loader>>

ApplyExtractAssistantResponses ==
    /\ op = "parseFromString"
    /\ transcript' = ret
    /\ args' = <<>>
    /\ ret' = Outcome("extractAssistantResponses",
           readsNullLine(ret) \/ readsNullBlock(ret, MessageType.Assistant),
           extractAssistantResponses(ret))
    /\ op' = "extractAssistantResponses"
    /\ UNCHANGED <<convertVars, chunkVars, checkpoint, loader>>

ApplyExtractAllPromptResponses ==
    /\ op = "parseFromString"
    /\ transcript' = ret
    /\ args' = <<>>
    /\ ret' = Outcome("extractAllPromptResponses",
           promptResponsesReadNull(ret),
           extractAllPromptResponses(ret))
    /\ op' = "extractAllPromptResponses"
    /\ UNCHANGED <<convertVars, chunkVars, checkpoint, loader>>

ApplyCalculateTokenUsage ==
    /\ op = "parseFromString"
    /\ transcript' = ret
    /\ args' = <<>>
    /\ ret' = Outcome("calculateTokenUsage",
           readsNullLine(ret),
           calculateTokenUsage(ret))
    /\ op' = "calculateTokenUsage"
    /\ UNCHANGED <<convertVars, chunkVars, checkpoint, loader>>

ApplyFindCheckpointUUID ==
    \E toolUseId \in {"tu_1", "tu_9"} :
        /\ op = "parseFromString"
        /\ transcript' = ret
        /\ args' = [toolUseId |-> toolUseId]
        /\ ret' = Outcome("findCheckpointUUID",
               checkpointReadsNull(ret, toolUseId),
               findCheckpointUUID(ret, toolUseId))
        /\ op' = "findCheckpointUUID"
        /\ UNCHANGED <<convertVars, chunkVars, checkpoint, loader>>

ApplyExtractSpawnedAgentIds ==
    /\ op = "parseFromString"
    /\ transcript' = ret
    /\ args' = <<>>
    /\ ret' = Outcome("extractSpawnedAgentIds",
           readsNullLine(ret) \/ readsNullBlock(ret, MessageType.User),
           extractSpawnedAgentIds(ret))
    /\ op' = "extractSpawnedAgentIds"
    /\ UNCHANGED <<convertVars, chunkVars, checkpoint, loader>>

ApplyTruncateAtUUID ==
    \E lineUuid \in {"", "up", "zz"} :
        /\ op = "parseFromString"
        /\ transcript' = ret
        /\ args' = [uuid |-> lineUuid]
        /\ ret' = Outcome("truncateAtUUID",
               uuidSearchReadsNull(ret, lineUuid),
               truncateAtUUID(ret, lineUuid))
        /\ op' = "truncateAtUUID"
        /\ UNCHANGED <<convertVars, chunkVars, checkpoint, loader>>

ApplyFilterAfterUUID ==
    \E lineUuid \in {"", "up", "zz"} :
        /\ op = "parseFromString"
        /\ transcript' = ret
        /\ args' = [uuid |-> lineUuid]
        /\ ret' = Outcome("filterAfterUUID",
               uuidSearchReadsNull(ret, lineUuid),
               filterAfterUUID(ret, lineUuid))
        /\ op' = "filterAfterUUID"
        /\ UNCHANGED <<convertVars, chunkVars, checkpoint, loader>>

NextRobust ==
    \/ CallParseFromString
    \/ ApplyExtractModifiedFiles
    \/ ApplyExtractLastUserPrompt
    \/ ApplyExtractAllUserPrompts
    \/ ApplyExtractAssistantResponses
    \/ ApplyExtractAllPromptResponses
    \/ ApplyCalculateTokenUsage
    \/ ApplyFindCheckpointUUID
    \/ ApplyExtractSpawnedAgentIds
    \/ ApplyTruncateAtUUID
    \/ ApplyFilterAfterUUID

SpecRobust == InitRobust /\ [][NextRobust]_vars

ExtractionOperations ==
    {"extractModifiedFiles", "extractLastUserPrompt", "extractAllUserPrompts",
     "extractAssistantResponses", "extractAllPromptResponses", "calculateTokenUsage",
     "findCheckpointUUID", "extractSpawnedAgentIds", "truncateAtUUID", "filterAfterUUID"}

\* C30: no line-delimited extraction operation throws on parser output: for
\* every input string, each of the ten operations applied to
\* parseFromString(s) returns a value, also when lines of s are JSON values
\* that are not records (null, numbers, objects without type / uuid /
\* message, content arrays holding null).
C30_NoExtractionThrows ==
    op \in ExtractionOperations => ~ret.threw

====
